---- MODULE Spec2Model ----
(***************************************************************************)
(* Verification model of crypto_scanner_server.js (latest revision, lines  *)
(* 763-1579): the bounded-concurrency sweep (runWithConcurrency), the      *)
(* adaptive weight learner and aggregator, and the /scan trigger with the  *)
(* scanAndReport cycle.                                                    *)
(*                                                                         *)
(* Four specifications share the module:                                   *)
(*   SpecRWC      runWithConcurrency over arbitrary tasks, at the          *)
(*                granularity of the promise job (microtask) queue         *)
(*   SpecWeights  calculate_and_adjust_weights and averageWeights          *)
(*   Spec         the server: startup, /scan handlers, scanAndReport       *)
(*   SpecFn       single calls of the pure functions, on bounded inputs    *)
(***************************************************************************)
EXTENDS Integers, Sequences, FiniteSets, TLC

\* ------------------------------------------------------------------------
\* Bounds of the model (not program constants)
\* ------------------------------------------------------------------------
MaxTasks == 3
MaxLimit == 2
MaxTrades == 2      \* trials per learner pass (LEARNING_TRADE_COUNT is 50)
MaxPanel == 2       \* learning symbols per cycle (the source lists 5)
MaxRequests == 2    \* /scan requests received
MaxCandles == 4     \* candles handed to calculate_atr
MaxWindow == 2      \* ATR windows tried
MaxLevels == 3      \* order-book levels per side

\* ------------------------------------------------------------------------
\* Program constants.  Weights are held in half points, so that the
\* learning rate 0.5 is one unit; scores are held in quarter points, so
\* that half of a half-point weight is a whole number.
\* ------------------------------------------------------------------------
Pts(n) == 2 * n                 \* n points, in half points
OBI_WEIGHT == 15                \* line 791 (points)
LEARNING_RATE == Pts(1) \div 2  \* line 792: 0.5
LOOKBACK_PERIOD == 200          \* line 799
LEARNING_TRADE_COUNT == 50
LOOKAHEAD_CANDLES == 4          \* line 802
CONCURRENCY_LIMIT == 10         \* line 803
WARMUP == 26                    \* line 1166: predictIndex < 26
FLOOR == 5                      \* lines 1078, 1210: Math.max(5, ...)
CEILING == 100                  \* line 1203: Math.min(100, ...)
TARGET_TOTAL_WEIGHT == 100 - OBI_WEIGHT     \* lines 1073, 1216

VARIABLES
    \* --- runWithConcurrency (SpecRWC) ---
    tasks,        \* number of task functions in the `tasks` array
    limit,        \* the `limit` argument
    taskState,    \* per task: state of the promise returned by task()
    p1State,      \* per task: state of `promise` = task().finally(...)
    active,       \* the `active` Set (of `promise`s, by task index)
    results,      \* the `results` array (task indices whose output was pushed)
    completed,    \* the `completed` counter
    nextTask,     \* position of the for...of iterator
    rwcPc,        \* where the async function body is
    raceSnap,     \* promises the pending Promise.race / Promise.all listens to
    allLeft,      \* Promise.all: elements not yet fulfilled
    awaited,      \* state of the promise the function body awaits
    jobs,         \* the promise job queue (FIFO)
    seen,         \* what the awaiting caller reads from the returned array
    \* --- learning phase (SpecWeights) ---
    currentWeightsSnapshot,   \* scanAndReport's snapshot of CURRENT_WEIGHTS
    allLearningResults,       \* results pushed by the learning loop
    learned,                  \* learning symbols processed so far
    optimizedWeights,         \* scanAndReport's optimizedWeights
    averageAccuracy,          \* accuracy returned by averageWeights
    wPc,                      \* "learn" or "done"
    \* --- the server (Spec) ---
    configOk,             \* FIREBASE_CONFIG is present, parses and is not empty
    db,                   \* `db` is set (Firestore initialised)
    boot,                 \* progress of the startup function (lines 1565-1579)
    CURRENT_WEIGHTS,      \* line 784
    HISTORICAL_ACCURACY,  \* line 790, in tenths of a percent
    store,                \* the persisted document: << >> or <<document>>
    writeQueue,           \* setDoc calls in flight, in issue order
    arrived,              \* /scan requests received so far
    resp,                 \* per request: the HTTP status sent, or "none"
    cyc,                  \* per request: the scanAndReport call it started
    notified,             \* reports handed to sendTelegramMessage
    writeLog,             \* which cycle assigned CURRENT_WEIGHTS, in order
    \* --- single function calls (SpecFn) ---
    call,                 \* the function called and its arguments
    ret                   \* what the call returned

varsRWC == <<tasks, limit, taskState, p1State, active, results, completed,
             nextTask, rwcPc, raceSnap, allLeft, awaited, jobs, seen>>

varsW == <<currentWeightsSnapshot, allLearningResults, learned,
           optimizedWeights, averageAccuracy, wPc>>

varsSrv == <<configOk, db, boot, CURRENT_WEIGHTS, HISTORICAL_ACCURACY, store,
             writeQueue, arrived, resp, cyc, notified, writeLog>>

varsFn == <<call, ret>>

vars == <<varsRWC, varsW, varsSrv, varsFn>>

\* ========================================================================
\*  runWithConcurrency(tasks, limit)           crypto_scanner_server.js:1295
\* ========================================================================

TaskIds == 1..tasks

\* The server variables while another specification runs
SrvIdle ==
    /\ configOk = FALSE /\ db = FALSE /\ boot = "off"
    /\ CURRENT_WEIGHTS = << >> /\ HISTORICAL_ACCURACY = 0
    /\ store = << >> /\ writeQueue = << >> /\ arrived = 0
    /\ resp = << >> /\ cyc = << >> /\ notified = << >> /\ writeLog = << >>

\* The function-call variables while another specification runs
FnIdle == call = [fn |-> "none"] /\ ret = [fn |-> "none"]

\* The learning-phase variables while another specification runs
WIdle ==
    /\ currentWeightsSnapshot = << >> /\ allLearningResults = << >>
    /\ learned = 0 /\ optimizedWeights = << >>
    /\ averageAccuracy = 0 /\ wPc = "off"

\* Outcomes of a task promise: a truthy result, a falsy one (null), a rejection
Outcomes == {"value", "null", "reject"}

Job(k, t) == [kind |-> k, t |-> t]

\* A loop that waits only once `active` is larger than the limit
MustWait_Strict(a, lim) == Cardinality(a) > lim

\* line 1312: if (active.size >= limit)
MustWait(a, lim) == Cardinality(a) >= lim

InitRWC ==
    /\ tasks \in 1..MaxTasks
    /\ limit \in 1..MaxLimit
    /\ taskState = [t \in 1..MaxTasks |-> "idle"]
    /\ p1State = [t \in 1..MaxTasks |-> "none"]
    /\ active = {}
    /\ results = << >>
    /\ completed = 0
    /\ nextTask = 1
    /\ rwcPc = "loop"
    /\ raceSnap = {}
    /\ allLeft = 0
    /\ awaited = "none"
    /\ jobs = << >>
    /\ seen = << >>
    /\ WIdle
    /\ SrvIdle
    /\ FnIdle

\* One iteration of `for (const task of tasks)`: task() is called, the
\* finally/then/catch handlers are attached, the promise joins `active`, and
\* at the limit the body suspends on Promise.race(active).
Launch ==
    /\ rwcPc = "loop"
    /\ nextTask <= tasks
    /\ taskState' = [taskState EXCEPT ![nextTask] = "pending"]
    /\ p1State' = [p1State EXCEPT ![nextTask] = "pending"]
    /\ active' = active \cup {nextTask}
    /\ IF MustWait(active', limit)
          THEN /\ rwcPc' = "awaitRace"
               /\ raceSnap' = active'
               /\ awaited' = "pending"
               /\ nextTask' = nextTask
          ELSE /\ rwcPc' = "loop"
               /\ nextTask' = nextTask + 1
               /\ UNCHANGED <<raceSnap, awaited>>
    /\ UNCHANGED <<tasks, limit, results, completed, allLeft, jobs, seen>>
    /\ UNCHANGED <<varsW, varsSrv, varsFn>>

\* line 1316: await Promise.all(active).  Promise.all of an empty set is
\* already fulfilled, so the continuation is queued at once.
AwaitAll ==
    /\ rwcPc = "loop"
    /\ nextTask > tasks
    /\ rwcPc' = "awaitAll"
    /\ raceSnap' = active
    /\ allLeft' = Cardinality(active)
    /\ IF active = {}
          THEN /\ awaited' = "fulfilled"
               /\ jobs' = Append(jobs, Job("resume", 0))
          ELSE /\ awaited' = "pending"
               /\ jobs' = jobs
    /\ UNCHANGED <<tasks, limit, taskState, p1State, active, results,
                   completed, nextTask, seen>>
    /\ UNCHANGED <<varsW, varsSrv, varsFn>>

\* The promise returned by task() settles (an event outside the function):
\* the reaction registered by .finally() is queued.
Settle(t, o) ==
    /\ t \in TaskIds
    /\ taskState[t] = "pending"
    /\ taskState' = [taskState EXCEPT ![t] = o]
    /\ jobs' = Append(jobs, Job("finally", t))
    /\ UNCHANGED <<tasks, limit, p1State, active, results, completed,
                   nextTask, rwcPc, raceSnap, allLeft, awaited, seen>>
    /\ UNCHANGED <<varsW, varsSrv, varsFn>>

\* lines 1301-1304: the finally callback.  Its return makes `promise` adopt
\* an inner promise, which costs a NewPromiseResolveThenableJob.
RunFinally ==
    /\ jobs # << >> /\ rwcPc # "loop"
    /\ Head(jobs).kind = "finally"
    /\ active' = active \ {Head(jobs).t}
    /\ completed' = completed + 1
    /\ jobs' = Append(Tail(jobs), Job("thenable", Head(jobs).t))
    /\ UNCHANGED <<tasks, limit, taskState, p1State, results, nextTask,
                   rwcPc, raceSnap, allLeft, awaited, seen>>
    /\ UNCHANGED <<varsW, varsSrv, varsFn>>

RunThenable ==
    /\ jobs # << >> /\ rwcPc # "loop"
    /\ Head(jobs).kind = "thenable"
    /\ jobs' = Append(Tail(jobs), Job("settleP1", Head(jobs).t))
    /\ UNCHANGED <<tasks, limit, taskState, p1State, active, results,
                   completed, nextTask, rwcPc, raceSnap, allLeft, awaited,
                   seen>>
    /\ UNCHANGED <<varsW, varsSrv, varsFn>>

\* `promise` settles with the outcome of the task; its reactions (the
\* .then of line 1308, then those of Promise.race / Promise.all) are queued.
RunSettleP1 ==
    /\ jobs # << >> /\ rwcPc # "loop"
    /\ Head(jobs).kind = "settleP1"
    /\ p1State' = [p1State EXCEPT ![Head(jobs).t] =
                      IF taskState[Head(jobs).t] = "reject"
                         THEN "rejected" ELSE "fulfilled"]
    /\ jobs' = Append(Tail(jobs), Job("react", Head(jobs).t))
    /\ UNCHANGED <<tasks, limit, taskState, active, results, completed,
                   nextTask, rwcPc, raceSnap, allLeft, awaited, seen>>
    /\ UNCHANGED <<varsW, varsSrv, varsFn>>

\* lines 1308-1310: if (result) results.push(result); a rejection passes
\* through .then and is swallowed by .catch.  Then the reaction that
\* Promise.race / Promise.all attached to the same promise runs.
Listening(t) == awaited = "pending" /\ t \in raceSnap

RunReact ==
    /\ jobs # << >> /\ rwcPc # "loop"
    /\ Head(jobs).kind = "react"
    /\ LET t == Head(jobs).t
           ok == p1State[t] = "fulfilled"
       IN /\ results' = IF taskState[t] = "value"
                           THEN Append(results, t) ELSE results
          /\ IF ~Listening(t)
                THEN /\ jobs' = Tail(jobs)
                     /\ UNCHANGED <<awaited, allLeft>>
                ELSE IF ~ok
                THEN /\ awaited' = "rejected"
                     /\ jobs' = Append(Tail(jobs), Job("resume", 0))
                     /\ UNCHANGED allLeft
                ELSE IF rwcPc = "awaitRace" \/ allLeft = 1
                THEN /\ awaited' = "fulfilled"
                     /\ allLeft' = 0
                     /\ jobs' = Append(Tail(jobs), Job("resume", 0))
                ELSE /\ allLeft' = allLeft - 1
                     /\ jobs' = Tail(jobs)
                     /\ UNCHANGED awaited
    /\ UNCHANGED <<tasks, limit, taskState, p1State, active, completed,
                   nextTask, rwcPc, raceSnap, seen>>
    /\ UNCHANGED <<varsW, varsSrv, varsFn>>

\* The function body resumes after its await.  A rejected race or all
\* throws out of the function: the loop is abandoned and the returned
\* promise rejects.  After Promise.all, `return results` fulfils the
\* returned promise and queues the continuation of the awaiting caller.
RunResume ==
    /\ jobs # << >> /\ rwcPc # "loop"
    /\ Head(jobs).kind = "resume"
    /\ IF awaited = "rejected"
          THEN /\ rwcPc' = "threw"
               /\ jobs' = Tail(jobs)
               /\ UNCHANGED nextTask
          ELSE IF rwcPc = "awaitRace"
          THEN /\ rwcPc' = "loop"
               /\ nextTask' = nextTask + 1
               /\ jobs' = Tail(jobs)
          ELSE /\ rwcPc' = "returned"
               /\ jobs' = Append(Tail(jobs), Job("caller", 0))
               /\ UNCHANGED nextTask
    /\ awaited' = "none"
    /\ raceSnap' = {}
    /\ UNCHANGED <<tasks, limit, taskState, p1State, active, results,
                   completed, allLeft, seen>>
    /\ UNCHANGED <<varsW, varsSrv, varsFn>>

\* line 1470-1472: `const results = await runWithConcurrency(...)` resumes
\* and reads the array.
RunCaller ==
    /\ jobs # << >>
    /\ Head(jobs).kind = "caller"
    /\ seen' = results
    /\ rwcPc' = "callerDone"
    /\ jobs' = Tail(jobs)
    /\ UNCHANGED <<tasks, limit, taskState, p1State, active, results,
                   completed, nextTask, raceSnap, allLeft, awaited>>
    /\ UNCHANGED <<varsW, varsSrv, varsFn>>

NextRWC ==
    \/ Launch
    \/ AwaitAll
    \/ \E t \in 1..MaxTasks, o \in Outcomes : Settle(t, o)
    \/ RunFinally
    \/ RunThenable
    \/ RunSettleP1
    \/ RunReact
    \/ RunResume
    \/ RunCaller

SpecRWC == InitRWC /\ [][NextRWC]_vars

\* ------------------------------------------------------------------------
\* Claims about runWithConcurrency
\* ------------------------------------------------------------------------

Unsettled == {t \in TaskIds : taskState[t] = "pending"}
Launched == {t \in TaskIds : taskState[t] # "idle"}
Truthy == {t \in TaskIds : taskState[t] = "value"}
SeqToSet(s) == {s[i] : i \in 1..Len(s)}

\* C1: at every instant the number of launched-but-unsettled tasks is at
\* most limit; they are all held in `active`, whose size never exceeds limit.
C1_NeverExceedsLimit ==
    /\ Cardinality(Unsettled) <= limit
    /\ Unsettled \subseteq active
    /\ Cardinality(active) <= limit

\* C1 witness: the limit is reached while tasks remain to be launched.
C1_Witness ==
    /\ Cardinality(Unsettled) = limit
    /\ rwcPc = "awaitRace"
    /\ nextTask < tasks

\* C2 (original claim): a rejecting task is "no result"; runWithConcurrency
\* never rejects, and once nothing is left to run every task was launched.
C2_RejectionIsolated ==
    /\ rwcPc # "threw"
    /\ (jobs = << >> /\ Unsettled = {} /\ rwcPc # "loop" => Launched = TaskIds)

\* C5 (original claim): what the caller receives from runWithConcurrency
\* is exactly the truthy task outputs, each once, all tasks having settled.
C5_ExactResults ==
    rwcPc = "callerDone" =>
        /\ Unsettled = {} /\ Launched = TaskIds
        /\ SeqToSet(seen) = Truthy
        /\ Len(seen) = Cardinality(Truthy)


\* ========================================================================
\*  Weights, prediction, learner, aggregator
\* ========================================================================

\* Object.keys(CURRENT_WEIGHTS), in declaration order (lines 784-789)
indicatorKeys == <<"OBV", "STOCH", "OI_PROXY", "MACD">>
KeySet == {"OBV", "STOCH", "OI_PROXY", "MACD"}

Weights(a, b, c, d) ==
    [OBV |-> Pts(a), STOCH |-> Pts(b), OI_PROXY |-> Pts(c), MACD |-> Pts(d)]

\* lines 784-790: the hardcoded defaults
DefaultWeights == Weights(30, 25, 20, 10)

\* Object.values(w).reduce((a, b) => a + b, 0)
SumW(w) == w.OBV + w.STOCH + w.OI_PROXY + w.MACD

Sign(x) == IF x > 0 THEN 1 ELSE IF x < 0 THEN -1 ELSE 0
Abs(x) == IF x < 0 THEN -x ELSE x
Min(a, b) == IF a < b THEN a ELSE b
Max(a, b) == IF a > b THEN a ELSE b

\* Math.round(n / d) for d > 0: nearest integer, ties toward +infinity
Round(n, d) == (2 * n + d) \div (2 * d)

\* Pairs <<w, total>> (half points, w <= 400, total <= 800) for which the
\* exact value of w * 85 / total is a tie k + 0.5 but the IEEE-754 double
\* product w * (85 / total) lies just below it, so that Math.round gives k.
\* In every other case of that range the double computation rounds as the
\* exact quotient does.
FloatTieDown == {
    <<21, 70>>, <<39, 78>>, <<42, 140>>, <<49, 70>>, <<77, 70>>, <<78, 156>>,
    <<84, 280>>, <<87, 290>>, <<91, 70>>, <<93, 62>>, <<93, 310>>,
    <<98, 140>>, <<105, 70>>, <<117, 78>>, <<145, 290>>, <<154, 140>>,
    <<155, 62>>, <<156, 312>>, <<161, 70>>, <<161, 230>>, <<168, 560>>,
    <<174, 580>>, <<175, 70>>, <<182, 140>>, <<183, 610>>, <<186, 124>>,
    <<186, 620>>, <<189, 70>>, <<195, 78>>, <<196, 280>>, <<203, 70>>,
    <<203, 290>>, <<207, 138>>, <<210, 140>>, <<217, 310>>, <<234, 156>>,
    <<261, 522>>, <<279, 62>>, <<290, 580>>, <<297, 594>>, <<299, 230>>,
    <<301, 70>>, <<305, 610>>, <<308, 280>>, <<310, 124>>, <<312, 624>>,
    <<313, 626>>, <<315, 70>>, <<319, 290>>, <<321, 642>>, <<322, 140>>,
    <<322, 460>>, <<327, 654>>, <<329, 70>>, <<333, 222>>, <<339, 226>>,
    <<341, 62>>, <<341, 310>>, <<343, 70>>, <<345, 230>>, <<350, 140>>,
    <<351, 78>>, <<357, 70>>, <<364, 280>>, <<371, 70>>, <<372, 248>>,
    <<377, 290>>, <<378, 140>>, <<385, 70>>, <<387, 258>>, <<390, 156>>,
    <<392, 560>>, <<399, 70>> }

\* Math.round(w * normalizationFactor), normalizationFactor being
\* TARGET_TOTAL_WEIGHT / total (lines 1219-1221, 1075-1078, 1083-1085).
\* w and total in half points, the result in half points.
ScaleRound(w, total) ==
    Pts(Round(w * TARGET_TOTAL_WEIGHT, total)
        - (IF <<w, total>> \in FloatTieDown THEN 1 ELSE 0))

\* ------------------------------------------------------------------------
\* generatePrediction (lines 1101-1149).  Readings are integers; the score,
\* the component scores and the confidence are in quarter points.
\* ------------------------------------------------------------------------
\* A direction that needs a positive score to be UP
Direction_StrictlyPositive(score) == IF score > 0 THEN "UP" ELSE "DOWN"

\* line 1145
Direction(score) == IF score >= 0 THEN "UP" ELSE "DOWN"

\* An order-book contribution of half the static weight at most
ObiScore_HalfAtMost(obiPct) ==
    IF obiPct > 55 THEN 2 * OBI_WEIGHT
    ELSE IF obiPct < 45 THEN -(2 * OBI_WEIGHT)
    ELSE 0

\* lines 1135-1140, in quarter points
ObiScore(obiPct) ==
    IF obiPct > 65 THEN 4 * OBI_WEIGHT
    ELSE IF obiPct < 35 THEN -(4 * OBI_WEIGHT)
    ELSE IF obiPct > 55 THEN 2 * OBI_WEIGHT
    ELSE IF obiPct < 45 THEN -(2 * OBI_WEIGHT)
    ELSE 0

generatePrediction(obvPctChange, stochK, macdHist, volumePressure, obiPct, weights) ==
    LET obvScore == IF obvPctChange > 1 THEN 2 * weights.OBV
                    ELSE IF obvPctChange < -1 THEN -(2 * weights.OBV)
                    ELSE 0
        stochScore == IF stochK < 25 THEN 2 * weights.STOCH
                      ELSE IF stochK > 75 THEN -(2 * weights.STOCH)
                      ELSE 0
        oiScore == IF volumePressure > 50 THEN 2 * weights.OI_PROXY
                   ELSE IF volumePressure < -50 THEN -(2 * weights.OI_PROXY)
                   ELSE IF volumePressure > 10 THEN weights.OI_PROXY
                   ELSE IF volumePressure < -10 THEN -weights.OI_PROXY
                   ELSE 0
        macdScore == IF macdHist > 0 THEN 2 * weights.MACD
                     ELSE IF macdHist < 0 THEN -(2 * weights.MACD)
                     ELSE 0
        obiScore == ObiScore(obiPct)
        score == obvScore + stochScore + oiScore + macdScore + obiScore
    IN [prediction |-> Direction(score),
        confidence |-> Min(4 * 100, Abs(score)),
        score |-> score,
        componentScores |-> [OBV |-> obvScore, STOCH |-> stochScore,
                             OI_PROXY |-> oiScore, MACD |-> macdScore,
                             OBI |-> obiScore]]

\* ------------------------------------------------------------------------
\* calculate_and_adjust_weights (lines 1152-1233)
\*
\* The candle sequence `data` is represented by what the function reads
\* from it: its length and, for trial i, the indicator readings at
\* predictIndex and the sign of close[outcomeIndex] - close[predictIndex].
\* ------------------------------------------------------------------------

Trial(obv, stoch, macd, vp, actual) ==
    [obv |-> obv, stoch |-> stoch, macd |-> macd, vp |-> vp, actual |-> actual]

\* The update of the earlier revision (lines 425-449): a hit rewards the
\* keys whose contribution times the score is positive; a miss penalizes
\* only when UP was predicted and DOWN happened (keys with a positive
\* contribution) or the reverse; a FLAT outcome changes nothing
TrialStep_EarlierRevision(adjustedWeights, tr) ==
    LET prediction == generatePrediction(tr.obv, tr.stoch, tr.macd, tr.vp,
                                         50, adjustedWeights)
        isHit == prediction.prediction = tr.actual
        comp(key) == prediction.componentScores[key]
    IN [key \in KeySet |->
            IF isHit
               THEN IF comp(key) * prediction.score > 0
                       THEN Min(Pts(CEILING), adjustedWeights[key] + LEARNING_RATE)
                       ELSE adjustedWeights[key]
            ELSE IF \/ (prediction.prediction = "UP" /\ tr.actual = "DOWN"
                            /\ comp(key) > 0)
                    \/ (prediction.prediction = "DOWN" /\ tr.actual = "UP"
                            /\ comp(key) < 0)
                    THEN Max(Pts(FLOOR), adjustedWeights[key] - LEARNING_RATE)
                    ELSE adjustedWeights[key]]

\* An update without Math.min / Math.max
TrialStep_Unclamped(adjustedWeights, tr) ==
    LET prediction == generatePrediction(tr.obv, tr.stoch, tr.macd, tr.vp,
                                         50, adjustedWeights)
        isHit == prediction.prediction = tr.actual
        voted(key) == Sign(prediction.componentScores[key]) = Sign(prediction.score)
    IN [key \in KeySet |->
            IF ~voted(key) THEN adjustedWeights[key]
            ELSE IF isHit THEN adjustedWeights[key] + LEARNING_RATE
                          ELSE adjustedWeights[key] - LEARNING_RATE]

\* lines 1191-1213: one trial of the loop, on the in-progress weights
TrialStep(adjustedWeights, tr) ==
    LET NEUTRAL_OBI == 50
        prediction == generatePrediction(tr.obv, tr.stoch, tr.macd, tr.vp,
                                         NEUTRAL_OBI, adjustedWeights)
        isHit == prediction.prediction = tr.actual
        voted(key) == Sign(prediction.componentScores[key]) = Sign(prediction.score)
    IN [key \in KeySet |->
            IF ~voted(key) THEN adjustedWeights[key]
            ELSE IF isHit
                 THEN Min(Pts(CEILING), adjustedWeights[key] + LEARNING_RATE)
                 ELSE Max(Pts(FLOOR), adjustedWeights[key] - LEARNING_RATE)]

TrialHit(adjustedWeights, tr) ==
    generatePrediction(tr.obv, tr.stoch, tr.macd, tr.vp, 50,
                       adjustedWeights).prediction = tr.actual

\* lines 1162-1169: the number of trials the loop executes
RECURSIVE TrialsRun(_, _)
TrialsRun(len, i) ==
    IF i >= MaxTrades THEN i
    ELSE IF len - LOOKAHEAD_CANDLES - 1 - i < WARMUP \/ len - 1 - i >= len THEN i
    ELSE TrialsRun(len, i + 1)

\* lines 1162-1214: the loop; returns the in-progress weights and the hits
RECURSIVE RunTrials(_, _, _, _, _)
RunTrials(trials, i, n, w, hits) ==
    IF i > n THEN [weights |-> w, hits |-> hits]
    ELSE RunTrials(trials, i + 1, n, TrialStep(w, trials[i]),
                   hits + (IF TrialHit(w, trials[i]) THEN 1 ELSE 0))

\* A renormalization without the remainder correction of lines 1224-1229
NormalizeLearned_NoCorrection(adjustedWeights) ==
    [key \in KeySet |-> ScaleRound(adjustedWeights[key], SumW(adjustedWeights))]

\* lines 1216-1229: proportional renormalization, rounding, remainder
\* correction on indicatorKeys[0]
NormalizeLearned(adjustedWeights) ==
    LET currentTotal == SumW(adjustedWeights)
        scaled == [key \in KeySet |-> ScaleRound(adjustedWeights[key], currentTotal)]
        sumCorrection == Pts(TARGET_TOTAL_WEIGHT) - SumW(scaled)
        keyToAdjust == indicatorKeys[1]
    IN [scaled EXCEPT ![keyToAdjust] = @ + sumCorrection]

\* Accuracies are numbers of tenths of a percent; the strings 'N/A' (line
\* 1154) and 'NaN' (what toFixed makes of NaN, line 1096) are kept apart
\* from them as negative values.
NA == -1
NotANumber == -2

\* The hit rate as a fraction of 1 instead of a percentage
Accuracy_Fraction(hits, totalTrades) ==
    IF totalTrades > 0 THEN Round(10 * hits, totalTrades) ELSE 0

\* line 1231: ((hits / totalTrades) * 100).toFixed(1), in tenths of a percent
Accuracy(hits, totalTrades) ==
    IF totalTrades > 0 THEN Round(1000 * hits, totalTrades) ELSE 0

\* The length check of the earlier revision (line 386)
TooShort_TradeCount(data) == data.len < LEARNING_TRADE_COUNT + LOOKAHEAD_CANDLES

\* line 1153
TooShort(data) == data.len < LOOKBACK_PERIOD

calculate_and_adjust_weights(data, initialWeights) ==
    IF TooShort(data)
       THEN [weights |-> initialWeights, accuracy |-> NA]
       ELSE LET totalTrades == TrialsRun(data.len, 0)
                run == RunTrials(data.trials, 1, totalTrades, initialWeights, 0)
            IN [weights |-> NormalizeLearned(run.weights),
                accuracy |-> Accuracy(run.hits, totalTrades)]

\* A learner that works on the object it was handed instead of a copy: the
\* caller's object holds the adjusted weights after the call
ArgumentAfter_Aliased(data, initialWeights) ==
    IF TooShort(data)
       THEN initialWeights
       ELSE RunTrials(data.trials, 1, TrialsRun(data.len, 0), initialWeights, 0).weights

\* The object passed as initialWeights, after the call: the function reads
\* it into spread copies (lines 1154, 1157) and assigns only to the copies
\* (lines 1203, 1210) and to finalWeights (lines 1216-1229)
ArgumentAfter(data, initialWeights) == initialWeights

\* ------------------------------------------------------------------------
\* averageWeights (lines 1051-1099)
\* ------------------------------------------------------------------------
RECURSIVE SumKey(_, _, _)
SumKey(rs, key, i) ==
    IF i > Len(rs) THEN 0 ELSE rs[i].weights[key] + SumKey(rs, key, i + 1)

\* line 1096, (totalAccuracy / count).toFixed(1): toFixed rounds the exact
\* value of the double, and for these <<sum of accuracies in tenths, count>>
\* the quotient, a decimal tie, is a double just below the tie (all such
\* cases for accuracies over at most 4 trades and panels of at most 3)
AccuracyTieDown ==
    { <<333, 2>>, <<583, 2>>, <<833, 2>>, <<1083, 2>>, <<1417, 2>>, <<1667, 2>> }

AverageFixed(totalAccuracy, count) ==
    IF <<totalAccuracy, count>> \in AccuracyTieDown
       THEN Round(totalAccuracy, count) - 1
       ELSE Round(totalAccuracy, count)

RECURSIVE SumAccuracy(_, _)
SumAccuracy(rs, i) ==
    IF i > Len(rs) THEN 0 ELSE rs[i].accuracy + SumAccuracy(rs, i + 1)

\* An aggregator whose minimum after the first normalisation is 10
averageWeights_FloorTen(allLearnedResults) ==
    LET count == Len(allLearnedResults)
        \* line 1070: Math.round(sum / count)
        mean == [key \in KeySet |->
                    Pts(Round(SumKey(allLearnedResults, key, 1), 2 * count))]
        currentTotal == SumW(mean)
        \* Math.max(10, ...)
        floored == [key \in KeySet |->
                       Max(Pts(10), ScaleRound(mean[key], currentTotal))]
        finalTotal == SumW(floored)
        \* line 1085
        final == [key \in KeySet |-> ScaleRound(floored[key], finalTotal)]
        sumCorrection == Pts(TARGET_TOTAL_WEIGHT) - SumW(final)
        keyToAdjust == indicatorKeys[1]
    IN [averagedWeights |-> [final EXCEPT ![keyToAdjust] = @ + sumCorrection],
        \* line 1096: (totalAccuracy / count).toFixed(1)
        \* line 1061: parseFloat('N/A') is NaN, and NaN stays NaN in the sum
        averageAccuracy |->
            IF \E i \in 1..count : allLearnedResults[i].accuracy = NA
               THEN NotANumber
               ELSE AverageFixed(SumAccuracy(allLearnedResults, 1), count)]

averageWeights(allLearnedResults) ==
    LET count == Len(allLearnedResults)
        \* line 1070: Math.round(sum / count)
        mean == [key \in KeySet |->
                    Pts(Round(SumKey(allLearnedResults, key, 1), 2 * count))]
        currentTotal == SumW(mean)
        \* line 1078: Math.max(5, Math.round(w * normalizationFactor))
        floored == [key \in KeySet |->
                       Max(Pts(FLOOR), ScaleRound(mean[key], currentTotal))]
        finalTotal == SumW(floored)
        \* line 1085
        final == [key \in KeySet |-> ScaleRound(floored[key], finalTotal)]
        sumCorrection == Pts(TARGET_TOTAL_WEIGHT) - SumW(final)
        keyToAdjust == indicatorKeys[1]
    IN [averagedWeights |-> [final EXCEPT ![keyToAdjust] = @ + sumCorrection],
        \* line 1096: (totalAccuracy / count).toFixed(1)
        \* line 1061: parseFloat('N/A') is NaN, and NaN stays NaN in the sum
        averageAccuracy |->
            IF \E i \in 1..count : allLearnedResults[i].accuracy = NA
               THEN NotANumber
               ELSE AverageFixed(SumAccuracy(allLearnedResults, 1), count)]

\* ------------------------------------------------------------------------
\* The learning phase of scanAndReport (lines 1430-1464) on its own
\* ------------------------------------------------------------------------

\* Starting snapshots: the defaults and other vectors within [5, 100]
\* that sum to 85
StartVectors ==
    { DefaultWeights, Weights(5, 26, 27, 27), Weights(5, 5, 32, 43),
      Weights(22, 21, 21, 21) }

\* Trials a candle sequence can present (readings at predictIndex, actual
\* direction at outcomeIndex)
TrialSamples ==
    { Trial(2, 50, 0, 0, "UP"),        \* OBV alone votes up, hit
      Trial(0, 10, 0, 0, "UP"),        \* Stochastic alone votes up, hit
      Trial(0, 50, -1, 0, "DOWN"),     \* MACD alone votes down, hit
      Trial(2, 10, 1, 60, "DOWN"),     \* all four vote up, miss
      Trial(0, 50, 0, 0, "FLAT"),      \* nothing votes, net score 0, flat
      Trial(-2, 50, 0, 0, "UP"),       \* OBV alone votes down, miss
      Trial(-2, 10, 1, -60, "UP"),     \* two against two, hit
      Trial(-2, 10, 0, 0, "UP") }      \* OBV against Stochastic

\* Candle sequences: full, with every run of trials, or one candle short
\* of the lookback (the learner returns before reading any candle)
Histories ==
    { [len |-> LOOKBACK_PERIOD, trials |-> t] : t \in [1..MaxTrades -> TrialSamples] }
    \cup { [len |-> LOOKBACK_PERIOD - 1,
            trials |-> [i \in 1..MaxTrades |-> Trial(0, 50, 0, 0, "FLAT")]] }

RWCIdle ==
    /\ tasks = 0 /\ limit = 1
    /\ taskState = << >> /\ p1State = << >>
    /\ active = {} /\ results = << >> /\ completed = 0 /\ nextTask = 1
    /\ rwcPc = "off" /\ raceSnap = {} /\ allLeft = 0 /\ awaited = "none"
    /\ jobs = << >> /\ seen = << >>

InitWeights ==
    /\ currentWeightsSnapshot \in StartVectors
    /\ allLearningResults = << >>
    /\ learned = 0
    /\ optimizedWeights = currentWeightsSnapshot
    /\ averageAccuracy = 0
    /\ wPc = "learn"
    /\ RWCIdle
    /\ SrvIdle
    /\ FnIdle

\* A learning loop that leaves the length check to the learner
Skipped_OnlyOnFailure(ok, data) == ~ok

\* lines 1433-1446: a learning symbol yields no learning result when its
\* candle fetch failed (the catch of line 1444) or returned fewer than
\* LOOKBACK_PERIOD candles (the `continue` of line 1438)
Skipped(ok, data) == ~ok \/ data.len < LOOKBACK_PERIOD

\* lines 1431-1447: one learning symbol whose candle fetch succeeded
LearnSymbol(data) ==
    /\ wPc = "learn"
    /\ learned < MaxPanel
    /\ learned' = learned + 1
    /\ allLearningResults' =
          IF Skipped(TRUE, data)
             THEN allLearningResults
             ELSE Append(allLearningResults,
                         calculate_and_adjust_weights(data, currentWeightsSnapshot))
    /\ currentWeightsSnapshot' =
          IF Skipped(TRUE, data)
             THEN currentWeightsSnapshot
             ELSE ArgumentAfter(data, currentWeightsSnapshot)
    /\ UNCHANGED <<optimizedWeights, averageAccuracy,
                   wPc, varsRWC, varsSrv, varsFn>>

\* lines 1450-1464
Aggregate ==
    /\ wPc = "learn"
    /\ learned >= 1
    /\ wPc' = "done"
    /\ IF Len(allLearningResults) > 0
          THEN /\ optimizedWeights' = averageWeights(allLearningResults).averagedWeights
               /\ averageAccuracy' = averageWeights(allLearningResults).averageAccuracy
          ELSE UNCHANGED <<optimizedWeights, averageAccuracy>>
    /\ UNCHANGED <<currentWeightsSnapshot, allLearningResults, learned,
                   varsRWC, varsSrv, varsFn>>

NextWeights ==
    \/ \E data \in Histories : LearnSymbol(data)
    \/ Aggregate

SpecWeights == InitWeights /\ [][NextWeights]_vars

\* ------------------------------------------------------------------------
\* Claims about the learner and the aggregator
\* ------------------------------------------------------------------------
InRange(w) == \A key \in KeySet : Pts(FLOOR) <= w[key] /\ w[key] <= Pts(CEILING)

\* C6: the four adjustable values returned by the Learner, and those
\* returned by the Aggregator, sum to exactly 85 (= 100 - 15).
C6_SumIsBudget ==
    /\ \A i \in 1..Len(allLearningResults) :
          SumW(allLearningResults[i].weights) = Pts(85)
    /\ (wPc = "done" => SumW(optimizedWeights) = Pts(85))

\* C6 witness: two learner passes changed the weights and were aggregated
\* into a vector different from the snapshot.
C6_Witness ==
    /\ wPc = "done"
    /\ Len(allLearningResults) = 2
    /\ allLearningResults[1].weights # allLearningResults[2].weights
    /\ optimizedWeights # currentWeightsSnapshot

\* C7 (original claim): every value returned by the Learner is in [5, 100].
C7_LearnerInRange ==
    \A i \in 1..Len(allLearningResults) : InRange(allLearningResults[i].weights)

\* C8 (original claim): every value returned by the Aggregator is in [5, 100].
C8_AggregatorInRange ==
    wPc = "done" /\ Len(allLearningResults) > 0 => InRange(optimizedWeights)

Requests == 1..MaxRequests

\* Answers of the symbol-list call (fetchTopSymbols): lists of symbols
SymbolLists == { <<"ALTUSDT">>, <<"BTCUSDT">> }

\* Positions of the sweep's tasks (one task per symbol of the list)
SweepTasks == UNION {DOMAIN list : list \in SymbolLists}

\* lines 1407-1413
specificLearningSymbols ==
    <<"BTCUSDT", "AVAXUSDT", "XVGUSDT", "ROSEUSDT", "PHBUSDT">>

\* Candle sequences the learning fetch can return: one candle short of
\* the lookback, or full with trials on which all four indicators vote up
\* and are right
ServerHistories ==
    { [len |-> LOOKBACK_PERIOD - 1,
       trials |-> [i \in 1..MaxTrades |-> Trial(2, 10, 1, 60, "DOWN")]],
      [len |-> LOOKBACK_PERIOD,
       trials |-> [i \in 1..MaxTrades |-> Trial(2, 10, 1, 60, "UP")]] }

\* Numbers of candles the sweep's candle fetch can return (it asks for
\* LOOKBACK_PERIOD of them, line 1330)
CandleLengths == { LOOKBACK_PERIOD - 2, LOOKBACK_PERIOD - 1, LOOKBACK_PERIOD }

\* What a sweep task reads from its candles and order book: the five
\* readings, the body of the last closed candle and the value that a
\* defined entry of the ATR sequence holds
ScanSamples ==
    { [obv |-> 2, stoch |-> 10, macd |-> 1, vp |-> 60, obi |-> 70,
       body |-> 3, atr |-> 4],
      [obv |-> 0, stoch |-> 50, macd |-> 0, vp |-> 0, obi |-> 50,
       body |-> 1, atr |-> 4] }

\* Documents the store may hold when the process starts
PersistedSamples ==
    { [weights |-> Weights(22, 21, 21, 21), accuracy |-> 480] }

\* accuracyBefore and saved are no variables of the code: accuracyBefore
\* keeps HISTORICAL_ACCURACY as it was when scanAndReport was called, and
\* saved keeps how the setDoc of the cycle's saveWeights settled ("none"
\* while there was none, then "ok" or "failed"), for the properties that
\* speak of them
NoCycle ==
    [pc |-> "none", currentWeightsSnapshot |-> << >>, accuracyBefore |-> 0,
     saved |-> "none", symbolsToScan |-> << >>,
     learningSymbols |-> << >>, li |-> 0, allLearningResults |-> << >>,
     optimizedWeights |-> << >>, task |-> << >>, candles |-> << >>,
     sActive |-> {}, sNext |-> 1, sResults |-> << >>]

InProgress(c) == c.pc \in {"fetchSymbols", "learn", "save", "sweep"}

InitSrv ==
    /\ configOk \in BOOLEAN
    /\ db = FALSE
    /\ boot = "init"
    /\ CURRENT_WEIGHTS = DefaultWeights
    /\ HISTORICAL_ACCURACY = 0
    /\ store \in {<< >>} \cup {<<d>> : d \in PersistedSamples}
    /\ writeQueue = << >>
    /\ arrived = 0
    /\ resp = [r \in Requests |-> "none"]
    /\ cyc = [r \in Requests |-> NoCycle]
    /\ notified = << >>
    /\ writeLog = << >>
    /\ RWCIdle
    /\ WIdle
    /\ FnIdle

\* initializeFirebase (lines 810-839): false when the configuration is
\* missing, unparsable or empty, or when initializeApp / getFirestore throws
InitOutcomes == IF configOk THEN {TRUE, FALSE} ELSE {FALSE}

\* saveWeights (lines 872-885): nothing without db, else a setDoc is issued
SaveIssued(owner, newWeights, newAccuracy) ==
    IF db THEN Append(writeQueue, [owner |-> owner, weights |-> newWeights,
                                   accuracy |-> newAccuracy])
          ELSE writeQueue

\* lines 1566-1572: initializeFirebase, then loadWeights issues its getDoc
BootInit ==
    /\ boot = "init"
    /\ \E ok \in InitOutcomes :
          /\ db' = ok
          /\ boot' = IF ok THEN "load" ELSE "listening"
    /\ UNCHANGED <<configOk, CURRENT_WEIGHTS, HISTORICAL_ACCURACY, store,
                   writeQueue, arrived, resp, cyc, notified, writeLog>>
    /\ UNCHANGED <<varsRWC, varsW, varsFn>>

\* loadWeights (lines 848-867) after its getDoc settled
BootLoad ==
    /\ boot = "load"
    /\ \E readOk \in BOOLEAN :
          IF ~readOk
             THEN /\ boot' = "listening"
                  /\ UNCHANGED <<CURRENT_WEIGHTS, HISTORICAL_ACCURACY, writeQueue>>
          ELSE IF Len(store) > 0
             THEN /\ CURRENT_WEIGHTS' = store[1].weights
                  /\ HISTORICAL_ACCURACY' = store[1].accuracy
                  /\ boot' = "listening"
                  /\ UNCHANGED writeQueue
             ELSE /\ writeQueue' = SaveIssued(0, CURRENT_WEIGHTS, HISTORICAL_ACCURACY)
                  /\ boot' = "save"
                  /\ UNCHANGED <<CURRENT_WEIGHTS, HISTORICAL_ACCURACY>>
    /\ UNCHANGED <<configOk, db, store, arrived, resp, cyc, notified, writeLog>>
    /\ UNCHANGED <<varsRWC, varsW, varsFn>>

\* ------------------------------------------------------------------------
\* scanAndReport (lines 1389-1484), as transformations of the cycle record
\* ------------------------------------------------------------------------

\* lines 1389-1397: up to the first await (the symbol-list call)
CycleStarted ==
    [NoCycle EXCEPT !.pc = "fetchSymbols",
                    !.currentWeightsSnapshot = CURRENT_WEIGHTS,
                    !.accuracyBefore = HISTORICAL_ACCURACY]

\* lines 1415-1428: the learning symbols present in the list, else the
\* first symbol of the list
RECURSIVE Filter(_, _, _)
Filter(seq, set, i) ==
    IF i > Len(seq) THEN << >>
    ELSE (IF seq[i] \in set THEN <<seq[i]>> ELSE << >>) \o Filter(seq, set, i + 1)

LearningSymbols(symbolsToScan) ==
    LET symbolsSet == {symbolsToScan[i] : i \in 1..Len(symbolsToScan)}
        found == Filter(specificLearningSymbols, symbolsSet, 1)
    IN IF Len(found) = 0 /\ Len(symbolsToScan) > 0
          THEN <<symbolsToScan[1]>> ELSE found

\* line 1332, negated: the candle sequence is long enough to go on with
Usable_FullWindow(len) == ~(len < LOOKBACK_PERIOD)

Usable(len) == ~(len < LOOKBACK_PERIOD - 1)

\* line 1346: the window processSymbolForScan passes to calculate_atr
ATR_WINDOW == 14

\* The value of an array read past its end
Undefined == -1

\* calculate_atr, lines 978-997: the length of the sequence returned for n
\* candles (one true range per candle after the first; one ATR for the first
\* `window` true ranges and one for each true range after them; a padding of
\* data.length - trueRanges.length entries in front)
AtrLength(n, window) ==
    LET trueRanges == IF n > 0 THEN n - 1 ELSE 0
        atr == IF trueRanges > 0 THEN 1 + Max(0, trueRanges - window) ELSE 0
    IN (n - trueRanges) + atr

\* lines 1337, 1346-1347: atr_values[lastIndex] for n candles (indices
\* count from 0)
CurrentAtr(n, sample) ==
    LET lastIndex == n - 2
    IN IF lastIndex < AtrLength(n, ATR_WINDOW) THEN sample.atr ELSE Undefined

\* lines 1358-1361: the gate on confidence (in quarter points) and on
\* recentVolatilityRatio = current_atr > 1e-6 ? lastCandleBody / current_atr : 0,
\* where a comparison with undefined is false
PassesGate_ConfidenceOnly(confidence, lastCandleBody, current_atr) ==
    confidence >= 4 * 50

PassesGate(confidence, lastCandleBody, current_atr) ==
    LET positive == current_atr # Undefined /\ current_atr > 0
    IN /\ confidence >= 4 * 50
       /\ positive /\ 2 * lastCandleBody > current_atr

\* processSymbolForScan, lines 1337-1373: the verdict on the fetched data,
\* n candles and the order book
ScanVerdict(symbol, sample, weights, n) ==
    LET prediction == generatePrediction(sample.obv, sample.stoch, sample.macd,
                                         sample.vp, sample.obi, weights)
    IN IF PassesGate(prediction.confidence, sample.body, CurrentAtr(n, sample))
          THEN <<[symbol |-> symbol, score |-> prediction.score,
                  prediction |-> prediction.prediction]>>
          ELSE << >>

\* runWithConcurrency, lines 1300-1315, as run by the sweep: the loop
\* launches tasks until `active` reaches the limit or the list is exhausted
RECURSIVE LaunchLoop(_)
LaunchLoop(c) ==
    IF c.sNext > Len(c.symbolsToScan) THEN c
    ELSE LET c1 == [c EXCEPT !.task[c.sNext] = "candles",
                             !.sActive = @ \cup {c.sNext}]
         IN IF MustWait(c1.sActive, CONCURRENCY_LIMIT)
               THEN c1
               ELSE LaunchLoop([c1 EXCEPT !.sNext = @ + 1])

SweepOver(c) == c.sNext > Len(c.symbolsToScan) /\ c.sActive = {}

\* lines 1472-1480: the report, once runWithConcurrency returned;
\* accuracyNow is HISTORICAL_ACCURACY as it is read at that moment
Reported(r, c, accuracyNow) ==
    IF Len(c.sResults) > 0 \/ accuracyNow # 0
       THEN Append(notified, [cycle |-> r, accuracy |-> accuracyNow,
                              weights |-> c.optimizedWeights,
                              results |-> c.sResults])
       ELSE notified

\* lines 1469-1484: the sweep starts (or goes on after a task settled);
\* when nothing is left in flight the report is made and the cycle ends
SweepGoesOn(r, c, accuracyNow) ==
    LET c1 == LaunchLoop([c EXCEPT !.pc = "sweep"])
    IN IF SweepOver(c1)
          THEN /\ cyc' = [cyc EXCEPT ![r] = [c1 EXCEPT !.pc = "done"]]
               /\ notified' = Reported(r, c1, accuracyNow)
          ELSE /\ cyc' = [cyc EXCEPT ![r] = c1]
               /\ notified' = notified

\* A scanAndReport that does not await saveWeights: the sweep starts while
\* the write is in flight
AfterLearning_SweepsAtOnce(r, c) ==
    IF Len(c.allLearningResults) > 0
       THEN LET avg == averageWeights(c.allLearningResults)
            IN /\ HISTORICAL_ACCURACY' = avg.averageAccuracy
               /\ CURRENT_WEIGHTS' = avg.averagedWeights
               /\ writeLog' = Append(writeLog, r)
               /\ writeQueue' = SaveIssued(r, avg.averagedWeights, avg.averageAccuracy)
               /\ SweepGoesOn(r, [c EXCEPT !.optimizedWeights = avg.averagedWeights],
                              avg.averageAccuracy)
       ELSE /\ UNCHANGED <<HISTORICAL_ACCURACY, CURRENT_WEIGHTS, writeLog, writeQueue>>
            /\ SweepGoesOn(r, [c EXCEPT !.optimizedWeights = c.currentWeightsSnapshot],
                           HISTORICAL_ACCURACY)

\* lines 1449-1470: after the learning loop
AfterLearning(r, c) ==
    IF Len(c.allLearningResults) > 0
       THEN LET avg == averageWeights(c.allLearningResults)
            IN /\ HISTORICAL_ACCURACY' = avg.averageAccuracy
               /\ CURRENT_WEIGHTS' = avg.averagedWeights
               /\ writeLog' = Append(writeLog, r)
               /\ writeQueue' = SaveIssued(r, avg.averagedWeights, avg.averageAccuracy)
               /\ IF db
                     THEN /\ cyc' = [cyc EXCEPT ![r] =
                                 [c EXCEPT !.pc = "save",
                                           !.optimizedWeights = avg.averagedWeights]]
                          /\ notified' = notified
                     ELSE SweepGoesOn(r, [c EXCEPT !.optimizedWeights =
                                                      avg.averagedWeights],
                                      avg.averageAccuracy)
       ELSE /\ UNCHANGED <<HISTORICAL_ACCURACY, CURRENT_WEIGHTS, writeLog, writeQueue>>
            /\ SweepGoesOn(r, [c EXCEPT !.optimizedWeights = c.currentWeightsSnapshot],
                           HISTORICAL_ACCURACY)

\* ------------------------------------------------------------------------
\* GET /scan (lines 1536-1561)
\* ------------------------------------------------------------------------
\* A handler that starts the cycle and sends nothing until it is over (the
\* earlier revision, lines 719-734, awaited scanAndReport before answering)
ScanRequest_Awaits(r) ==
    /\ boot = "listening"
    /\ r = arrived + 1 /\ r <= MaxRequests
    /\ arrived' = r
    /\ \E ok \in (IF db THEN {TRUE} ELSE InitOutcomes) :
          /\ db' = ok
          /\ IF ok THEN /\ cyc' = [cyc EXCEPT ![r] = CycleStarted]
                        /\ resp' = resp
                   ELSE /\ resp' = [resp EXCEPT ![r] = "503"]
                        /\ cyc' = cyc
    /\ UNCHANGED <<configOk, boot, CURRENT_WEIGHTS, HISTORICAL_ACCURACY, store,
                   writeQueue, notified, writeLog>>
    /\ UNCHANGED <<varsRWC, varsW, varsFn>>

\* A handler that answers 503 but goes on to call scanAndReport (the
\* `return` of line 1543 left out)
ScanRequest_RunsAnyway(r) ==
    /\ boot = "listening"
    /\ r = arrived + 1 /\ r <= MaxRequests
    /\ arrived' = r
    /\ \E ok \in (IF db THEN {TRUE} ELSE InitOutcomes) :
          /\ db' = ok
          /\ cyc' = [cyc EXCEPT ![r] = CycleStarted]
          /\ resp' = [resp EXCEPT ![r] = IF ok THEN "200" ELSE "503"]
    /\ UNCHANGED <<configOk, boot, CURRENT_WEIGHTS, HISTORICAL_ACCURACY, store,
                   writeQueue, notified, writeLog>>
    /\ UNCHANGED <<varsRWC, varsW, varsFn>>

\* Without db the handler tries initializeFirebase once more and answers
\* 503 if that fails; otherwise it calls scanAndReport() without awaiting
\* it and answers 200.
ScanRequest(r) ==
    /\ boot = "listening"
    /\ r = arrived + 1 /\ r <= MaxRequests
    /\ arrived' = r
    /\ \E ok \in (IF db THEN {TRUE} ELSE InitOutcomes) :
          /\ db' = ok
          /\ IF ok THEN /\ cyc' = [cyc EXCEPT ![r] = CycleStarted]
                        /\ resp' = [resp EXCEPT ![r] = "200"]
                   ELSE /\ resp' = [resp EXCEPT ![r] = "503"]
                        /\ cyc' = cyc
    /\ UNCHANGED <<configOk, boot, CURRENT_WEIGHTS, HISTORICAL_ACCURACY, store,
                   writeQueue, notified, writeLog>>
    /\ UNCHANGED <<varsRWC, varsW, varsFn>>

\* A catch block that reports the failure through the notifier before
\* it returns
SymbolsFailed_Notifies(r) ==
    /\ cyc' = [cyc EXCEPT ![r].pc = "aborted"]
    /\ notified' = Append(notified, [cycle |-> r, accuracy |-> HISTORICAL_ACCURACY,
                                     weights |-> cyc[r].currentWeightsSnapshot,
                                     results |-> << >>])
    /\ UNCHANGED <<HISTORICAL_ACCURACY, CURRENT_WEIGHTS, writeLog, writeQueue>>

\* lines 1398-1401: fetchTopSymbols rejected; the catch block logs and
\* returns from scanAndReport
SymbolsFailed(r) ==
    /\ cyc' = [cyc EXCEPT ![r].pc = "aborted"]
    /\ UNCHANGED <<HISTORICAL_ACCURACY, CURRENT_WEIGHTS, writeLog,
                   writeQueue, notified>>

\* lines 1395-1428 and the first learning fetch: fetchTopSymbols settled
SymbolsFetchedFrom(r, lists) ==
    /\ cyc[r].pc = "fetchSymbols"
    /\ \E ok \in BOOLEAN, out \in lists :
          IF ~ok
             THEN SymbolsFailed(r)
             ELSE LET c == [cyc[r] EXCEPT
                               !.symbolsToScan = out,
                               !.learningSymbols = LearningSymbols(out),
                               !.task = [i \in 1..Len(out) |-> "idle"],
                               !.candles = [i \in 1..Len(out) |-> 0]]
                  IN IF Len(c.learningSymbols) > 0
                        THEN /\ cyc' = [cyc EXCEPT ![r] =
                                           [c EXCEPT !.pc = "learn", !.li = 1]]
                             /\ UNCHANGED <<HISTORICAL_ACCURACY, CURRENT_WEIGHTS,
                                            writeLog, writeQueue, notified>>
                        ELSE AfterLearning(r, c)
    /\ UNCHANGED <<configOk, db, boot, store, arrived, resp>>
    /\ UNCHANGED <<varsRWC, varsW, varsFn>>

SymbolsFetched(r) == SymbolsFetchedFrom(r, SymbolLists)

\* lines 1431-1447: the candle fetch of learning symbol li settled
LearnFetched(r) ==
    /\ cyc[r].pc = "learn"
    /\ \E ok \in BOOLEAN, out \in ServerHistories :
          LET c0 == cyc[r]
              c == IF Skipped(ok, out) THEN c0
                   ELSE [c0 EXCEPT
                           !.allLearningResults = Append(@,
                              calculate_and_adjust_weights(out, c0.currentWeightsSnapshot)),
                           !.currentWeightsSnapshot = ArgumentAfter(out, @)]
          IN IF c.li < Len(c.learningSymbols)
                THEN /\ cyc' = [cyc EXCEPT ![r] = [c EXCEPT !.li = @ + 1]]
                     /\ UNCHANGED <<HISTORICAL_ACCURACY, CURRENT_WEIGHTS, writeLog,
                                    writeQueue, notified>>
                ELSE AfterLearning(r, c)
    /\ UNCHANGED <<configOk, db, boot, store, arrived, resp>>
    /\ UNCHANGED <<varsRWC, varsW, varsFn>>

\* A saveWeights that lets the failure of setDoc through to its caller:
\* scanAndReport ends at the await of line 1457
SaveDone_FailureAborts ==
    /\ writeQueue # << >>
    /\ LET w == Head(writeQueue)
       IN /\ writeQueue' = Tail(writeQueue)
          /\ \E ok \in BOOLEAN :
                /\ store' = IF ok THEN <<[weights |-> w.weights,
                                          accuracy |-> w.accuracy]>>
                                  ELSE store
                /\ IF w.owner = 0
                      THEN /\ boot' = "listening"
                           /\ UNCHANGED <<cyc, notified>>
                      ELSE /\ boot' = boot
                           /\ IF ok
                                 THEN SweepGoesOn(w.owner,
                                                  [cyc[w.owner] EXCEPT !.saved = "ok"],
                                                  HISTORICAL_ACCURACY)
                                 ELSE /\ cyc' = [cyc EXCEPT ![w.owner].pc = "aborted",
                                                            ![w.owner].saved = "failed"]
                                      /\ notified' = notified
    /\ UNCHANGED <<configOk, db, CURRENT_WEIGHTS, HISTORICAL_ACCURACY, arrived,
                   resp, writeLog>>
    /\ UNCHANGED <<varsRWC, varsW, varsFn>>

\* The oldest setDoc in flight settles; saveWeights swallows a failure
\* (lines 882-884) and its caller goes on.
SaveDone ==
    /\ writeQueue # << >>
    /\ LET w == Head(writeQueue)
       IN /\ writeQueue' = Tail(writeQueue)
          /\ \E ok \in BOOLEAN :
                /\ store' = IF ok THEN <<[weights |-> w.weights,
                                          accuracy |-> w.accuracy]>>
                                  ELSE store
                /\ IF w.owner = 0
                      THEN /\ boot' = "listening"
                           /\ UNCHANGED <<cyc, notified>>
                      ELSE /\ boot' = boot
                           /\ SweepGoesOn(w.owner,
                                          [cyc[w.owner] EXCEPT !.saved =
                                              IF ok THEN "ok" ELSE "failed"],
                                          HISTORICAL_ACCURACY)
    /\ UNCHANGED <<configOk, db, CURRENT_WEIGHTS, HISTORICAL_ACCURACY, arrived,
                   resp, writeLog>>
    /\ UNCHANGED <<varsRWC, varsW, varsFn>>

\* A finally callback that leaves the settled promise in `active`
TaskSettled_StaysActive(r, t, len, exit, outcome) ==
    LET c == cyc[r]
        c1 == [c EXCEPT !.task[t] = exit,
                        !.candles[t] = len,
                        !.sResults = @ \o outcome]
        waitsOnRace == c.sNext <= Len(c.symbolsToScan)
    IN SweepGoesOn(r, IF waitsOnRace THEN [c1 EXCEPT !.sNext = @ + 1] ELSE c1,
                   HISTORICAL_ACCURACY)

\* A sweep task returned at `exit` ("short": line 1332, "caught": line
\* 1380, "null": line 1373, "result": line 1362) with `outcome` (<< >> for
\* null, or <<result>>): lines 1301-1316, then the end of scanAndReport
\* when it was the last one. len is what is kept of the task's candles: the
\* number it was skipped with at "short", nothing (0) at the other exits
TaskSettled(r, t, len, exit, outcome) ==
    LET c == cyc[r]
        c1 == [c EXCEPT !.task[t] = exit,
                        !.candles[t] = len,
                        !.sActive = @ \ {t},
                        !.sResults = @ \o outcome]
        waitsOnRace == c.sNext <= Len(c.symbolsToScan)
    IN SweepGoesOn(r, IF waitsOnRace THEN [c1 EXCEPT !.sNext = @ + 1] ELSE c1,
                   HISTORICAL_ACCURACY)

\* A catch block that starts the task over instead of giving up
Caught_Retries(r, t) ==
    /\ cyc' = [cyc EXCEPT ![r].task[t] = "candles", ![r].candles[t] = 0]
    /\ notified' = notified

\* lines 1375-1381: a fetch rejected (fetchBinanceData and
\* fetchOrderBookData reject with Error objects only, so e.message is a
\* string); the catch block returns null
Caught(r, t) == TaskSettled(r, t, 0, "caught", << >>)

\* processSymbolForScan, lines 1328-1334: the candle fetch settled
CandlesFetched(r, t) ==
    /\ cyc[r].pc = "sweep"
    /\ t \in DOMAIN cyc[r].task
    /\ cyc[r].task[t] = "candles"
    /\ \E ok \in BOOLEAN, len \in CandleLengths :
          IF ~ok THEN Caught(r, t)
          ELSE IF ~Usable(len)
             THEN TaskSettled(r, t, len, "short", << >>)
          ELSE /\ cyc' = [cyc EXCEPT ![r].task[t] = "book",
                                     ![r].candles[t] = len]
               /\ notified' = notified
    /\ UNCHANGED <<configOk, db, boot, CURRENT_WEIGHTS, HISTORICAL_ACCURACY,
                   store, writeQueue, arrived, resp, writeLog>>
    /\ UNCHANGED <<varsRWC, varsW, varsFn>>

\* processSymbolForScan, lines 1334-1381: the order-book fetch settled
BookFetched(r, t) ==
    /\ cyc[r].pc = "sweep"
    /\ t \in DOMAIN cyc[r].task
    /\ cyc[r].task[t] = "book"
    /\ \E ok \in BOOLEAN, out \in ScanSamples :
          IF ~ok THEN Caught(r, t)
          ELSE LET verdict == ScanVerdict(cyc[r].symbolsToScan[t], out,
                                          cyc[r].optimizedWeights,
                                          cyc[r].candles[t])
               IN TaskSettled(r, t, 0,
                              IF Len(verdict) = 0 THEN "null" ELSE "result",
                              verdict)
    /\ UNCHANGED <<configOk, db, boot, CURRENT_WEIGHTS, HISTORICAL_ACCURACY,
                   store, writeQueue, arrived, resp, writeLog>>
    /\ UNCHANGED <<varsRWC, varsW, varsFn>>

Next ==
    \/ BootInit
    \/ BootLoad
    \/ \E r \in Requests : ScanRequest(r)
    \/ \E r \in Requests : SymbolsFetched(r)
    \/ \E r \in Requests : LearnFetched(r)
    \/ SaveDone
    \/ \E r \in Requests, t \in SweepTasks : CandlesFetched(r, t)
    \/ \E r \in Requests, t \in SweepTasks : BookFetched(r, t)

Spec == InitSrv /\ [][Next]_vars

\* ------------------------------------------------------------------------
\* One cycle on its own: the server has answered its first GET /scan and
\* scanAndReport is at its first await; no further request arrives. The
\* symbol list holds learning symbols, so that the panel has up to MaxPanel
\* instruments and the sweep as many tasks.
\* ------------------------------------------------------------------------
PanelLists == { SubSeq(specificLearningSymbols, 1, k) : k \in 1..MaxPanel }

PanelTasks == 1..MaxPanel

InitCycle ==
    /\ configOk = TRUE
    /\ db = TRUE
    /\ boot = "listening"
    /\ store \in {<< >>} \cup {<<d>> : d \in PersistedSamples}
    /\ \E loaded \in BOOLEAN :
          /\ CURRENT_WEIGHTS = IF loaded /\ Len(store) > 0 THEN store[1].weights
                                ELSE DefaultWeights
          /\ HISTORICAL_ACCURACY = IF loaded /\ Len(store) > 0 THEN store[1].accuracy
                                    ELSE 0
    /\ writeQueue = << >>
    /\ arrived = 1
    /\ resp = [r \in Requests |-> IF r = 1 THEN "200" ELSE "none"]
    /\ cyc = [r \in Requests |->
                IF r = 1 THEN [NoCycle EXCEPT !.pc = "fetchSymbols",
                                              !.currentWeightsSnapshot = CURRENT_WEIGHTS,
                                              !.accuracyBefore = HISTORICAL_ACCURACY]
                ELSE NoCycle]
    /\ notified = << >>
    /\ writeLog = << >>
    /\ RWCIdle
    /\ WIdle
    /\ FnIdle

NextCycle ==
    \/ SymbolsFetchedFrom(1, PanelLists)
    \/ LearnFetched(1)
    \/ SaveDone
    \/ \E t \in PanelTasks : CandlesFetched(1, t)
    \/ \E t \in PanelTasks : BookFetched(1, t)

SpecCycle == InitCycle /\ [][NextCycle]_vars

\* Every call in flight settles in the end: the symbol-list call, the
\* candle call of the learning loop, the setDoc of saveWeights, and the
\* candle and order-book calls of each sweep task
CallsSettle ==
    /\ WF_vars(SymbolsFetchedFrom(1, PanelLists))
    /\ WF_vars(LearnFetched(1))
    /\ WF_vars(SaveDone)
    /\ \A t \in PanelTasks : WF_vars(CandlesFetched(1, t))
    /\ \A t \in PanelTasks : WF_vars(BookFetched(1, t))

SpecCycleFair == InitCycle /\ [][NextCycle]_vars /\ CallsSettle

\* ------------------------------------------------------------------------
\* Claims about the trigger and the cycle
\* ------------------------------------------------------------------------
CyclesInProgress == {r \in Requests : InProgress(cyc[r])}

SweepInFlight == \E r \in Requests : cyc[r].sActive # {}

\* What request r's cycle has left behind, if anything
TouchedBy(r) ==
    \/ cyc[r].pc # "none"
    \/ \E i \in 1..Len(writeLog) : writeLog[i] = r
    \/ \E i \in 1..Len(writeQueue) : writeQueue[i].owner = r
    \/ \E i \in 1..Len(notified) : notified[i].cycle = r

\* C3: at no time are two cycles (scanAndReport runs) in progress against
\* the same in-memory CURRENT_WEIGHTS / HISTORICAL_ACCURACY.
C3_NoOverlappingCycles == Cardinality(CyclesInProgress) <= 1

\* C4: the in-memory weights and accuracy are written by a cycle only
\* before that cycle's sweep has launched a task, and never in a step taken
\* while some sweep task (of any cycle) is in flight.
C4_NoWriteDuringSweep ==
    [][writeLog' # writeLog =>
          /\ ~SweepInFlight
          /\ cyc[writeLog'[Len(writeLog')]].sNext = 1]_vars

\* C9: the step of GET /scan that starts a cycle is the step that sends
\* the 200 acknowledgment, with the cycle it started still in progress; the
\* cycle's later steps leave the response as it is.
C9_AckWithoutWaiting ==
    [][\A r \in Requests :
          /\ (cyc[r].pc = "none" /\ cyc'[r].pc # "none"
                 => resp[r] = "none" /\ resp'[r] = "200" /\ InProgress(cyc'[r]))
          /\ (cyc[r].pc # "none" => resp'[r] = resp[r])]_vars

C9_Witness ==
    \E r \in Requests : resp[r] = "200" /\ cyc[r].pc = "sweep" /\ cyc[r].sActive # {}

\* C10: while the persistence collaborator is not initialised, every
\* trigger received has been answered 503, and nothing of a cycle has run:
\* no cycle was started, the in-memory weights and accuracy are the
\* defaults, no save was issued and no notification sent; a request answered
\* 503 never has a cycle, a save or a notification of its own.
C10_UnavailableRunsNothing ==
    /\ \A r \in Requests : resp[r] = "503" => ~TouchedBy(r)
    /\ ~db => /\ \A r \in Requests : resp[r] = (IF r <= arrived THEN "503" ELSE "none")
              /\ \A r \in Requests : ~TouchedBy(r)
              /\ CURRENT_WEIGHTS = DefaultWeights /\ HISTORICAL_ACCURACY = 0
              /\ writeQueue = << >> /\ notified = << >> /\ writeLog = << >>

C10_Witness ==
    \E r \in Requests : resp[r] = "503" /\ ~configOk /\ arrived = r


\* ========================================================================
\*  Single calls of the pure functions
\* ========================================================================

SeqsUpTo(S, n) == UNION {[1..k -> S] : k \in 0..n}

\* ------------------------------------------------------------------------
\* calculate_atr (lines 978-997); ATR values are <<numerator, denominator>>
\* ------------------------------------------------------------------------
\* lines 979-985: one true range per candle after the first
TrueRanges(data) ==
    [i \in 1..(Len(data) - 1) |->
        LET cur == data[i + 1]
            prev == data[i]
        IN Max(cur.high - cur.low,
               Max(Abs(cur.high - prev.close), Abs(cur.low - prev.close)))]

\* line 988: trueRanges.slice(0, window).reduce((a, b) => a + b, 0)
RECURSIVE SumFirst(_, _)
SumFirst(seq, k) == IF k = 0 THEN 0 ELSE seq[k] + SumFirst(seq, k - 1)

\* lines 991-994: the entries for trueRanges[window] onwards (index i counts
\* from 1 here)
RECURSIVE Smoothed(_, _, _, _)
Smoothed(trueRanges, window, i, current_atr) ==
    IF i > Len(trueRanges) THEN << >>
    ELSE LET next == <<current_atr[1] * (window - 1) + trueRanges[i] * current_atr[2],
                       current_atr[2] * window>>
         IN <<next>> \o Smoothed(trueRanges, window, i + 1, next)

calculate_atr(data, window) ==
    LET trueRanges == TrueRanges(data)
        initial_sum == SumFirst(trueRanges, Min(window, Len(trueRanges)))
        first == <<initial_sum, window>>
        atr == IF Len(trueRanges) > 0
                  THEN <<first>> \o Smoothed(trueRanges, window, window + 1, first)
                  ELSE << >>
        \* line 996: atr[0] || 0
        padValue == IF Len(atr) > 0 /\ atr[1][1] # 0 THEN atr[1] ELSE <<0, 1>>
    IN [i \in 1..(Len(data) - Len(trueRanges)) |-> padValue] \o atr

\* ------------------------------------------------------------------------
\* calculate_depth_weighted_imbalance (lines 1029-1049); the result is
\* <<numerator, denominator>>
\* ------------------------------------------------------------------------
\* lines 1034-1042: sum of quantity * (limit - index), index from 0
RECURSIVE WeightedVolume(_, _, _)
WeightedVolume(side, depth, i) ==
    IF i > Len(side) THEN 0
    ELSE side[i] * (depth - (i - 1)) + WeightedVolume(side, depth, i + 1)

calculate_depth_weighted_imbalance(book) ==
    IF ~book.present \/ ~book.hasBids \/ ~book.hasAsks
       THEN <<0, 1>>
       ELSE LET depth == Len(book.bids)      \* `limit`, line 1032
                totalWeightedBidVolume == WeightedVolume(book.bids, depth, 1)
                totalWeightedAskVolume == WeightedVolume(book.asks, depth, 1)
                totalWeightedVolume == totalWeightedBidVolume + totalWeightedAskVolume
            IN \* line 1046: quantities are whole numbers here, so < 1e-6 is < 1
               IF totalWeightedVolume < 1
                  THEN <<50, 1>>
                  ELSE <<100 * totalWeightedBidVolume, totalWeightedVolume>>

\* ------------------------------------------------------------------------
\* The inputs
\* ------------------------------------------------------------------------
CandleSamples ==
    { [high |-> 3, low |-> 1, close |-> 2], [high |-> 6, low |-> 2, close |-> 5] }

\* Quantities at a level of the book
Quantities == { 0, 1, 3 }

\* Order books: absent (null or undefined), without bids or without asks,
\* or with both sides (either may be empty)
Books ==
    { [present |-> FALSE, hasBids |-> FALSE, hasAsks |-> FALSE,
       bids |-> << >>, asks |-> << >>] }
    \cup { [present |-> TRUE, hasBids |-> hb, hasAsks |-> ha,
            bids |-> IF hb THEN b ELSE << >>, asks |-> IF ha THEN a ELSE << >>] :
              hb \in BOOLEAN, ha \in BOOLEAN,
              b \in SeqsUpTo(Quantities, MaxLevels),
              a \in SeqsUpTo(Quantities, MaxLevels) }

\* Candle counts around the two thresholds the learner has had
LearnerLengths ==
    { LEARNING_TRADE_COUNT + LOOKAHEAD_CANDLES - 1,
      LEARNING_TRADE_COUNT + LOOKAHEAD_CANDLES,
      LOOKBACK_PERIOD - 1, LOOKBACK_PERIOD }

LearnerTrials ==
    [1..MaxTrades -> { Trial(2, 50, 0, 0, "UP"), Trial(2, 10, 1, 60, "DOWN") }]

\* Confidences (quarter points), candle bodies and ATR readings at the gate
GateConfidences == { 4 * 50 - 1, 4 * 50, 4 * 80 }
GateBodies == { 0, 1, 2, 3 }
GateAtrs == { Undefined, 0, 2, 4 }

\* ------------------------------------------------------------------------
\* The learner's loop (lines 1162-1214), trial by trial
\* ------------------------------------------------------------------------
\* A loop whose prediction candle is one place later
TrialIndices_OneLater(len, i) ==
    [i |-> i,
     predictIndex |-> len - LOOKAHEAD_CANDLES - i,
     outcomeIndex |-> len - 1 - i]

\* lines 1163-1164
TrialIndices(len, i) ==
    [i |-> i,
     predictIndex |-> len - LOOKAHEAD_CANDLES - 1 - i,
     outcomeIndex |-> len - 1 - i]

\* line 1166
LoopBreaks(len, i) ==
    TrialIndices(len, i).predictIndex < WARMUP
       \/ TrialIndices(len, i).outcomeIndex >= len

\* lines 1162-1169: the indices of the trials the loop executes, in the
\* order it executes them
RECURSIVE ExecutedTrials(_, _, _)
ExecutedTrials(len, totalTrades, i) ==
    IF i >= totalTrades \/ LoopBreaks(len, i) THEN << >>
    ELSE <<TrialIndices(len, i)>> \o ExecutedTrials(len, totalTrades, i + 1)

\* lines 1191-1213: what each executed trial did (trials[i] is read for the
\* i-th executed trial), from the in-progress weights w
RECURSIVE TrialTrace(_, _, _, _)
TrialTrace(trials, i, n, w) ==
    IF i > n THEN << >>
    ELSE LET after == TrialStep(w, trials[i])
         IN <<[before |-> w,
               prediction |-> generatePrediction(trials[i].obv, trials[i].stoch,
                                                 trials[i].macd, trials[i].vp, 50, w),
               actual |-> trials[i].actual,
               isHit |-> TrialHit(w, trials[i]),
               after |-> after]>>
            \o TrialTrace(trials, i + 1, n, after)

\* calculate_and_adjust_weights with what its loop did
LearnerWithTrace(data, initialWeights) ==
    [trace |-> IF TooShort(data) THEN << >>
               ELSE TrialTrace(data.trials, 1, TrialsRun(data.len, 0), initialWeights),
     result |-> calculate_and_adjust_weights(data, initialWeights)]

\* Candle counts for the loop: a full lookback, and counts near the
\* warm-up at which the loop breaks early (the check of line 1153 keeps
\* these from the loop in this revision)
LoopLengths ==
    { LOOKBACK_PERIOD, WARMUP + LOOKAHEAD_CANDLES, WARMUP + LOOKAHEAD_CANDLES + 1,
      WARMUP + LOOKAHEAD_CANDLES + 3, LEARNING_TRADE_COUNT + LOOKAHEAD_CANDLES,
      WARMUP + LOOKAHEAD_CANDLES + LEARNING_TRADE_COUNT,
      WARMUP + LOOKAHEAD_CANDLES + LEARNING_TRADE_COUNT + 1 }

\* Starting vectors for the loop: the snapshots, and one with values on
\* the ceiling and on the floor (CURRENT_WEIGHTS is whatever the stored
\* document held)
LoopVectors == StartVectors \cup { Weights(100, 100, 5, 5) }

\* ------------------------------------------------------------------------
\* One trial on candles (lines 1171-1194): the indicators of lines 918-1006
\* computed on the slice the trial takes. Fractions are exact (<<numerator,
\* denominator>>, denominator positive, lowest terms).
\* ------------------------------------------------------------------------
RECURSIVE GCD(_, _)
GCD(a, b) == IF b = 0 THEN a ELSE GCD(b, a % b)

Ratio(n, d) ==
    IF n = 0 THEN <<0, 1>>
    ELSE LET g == GCD(Abs(n), d) IN <<n \div g, d \div g>>

RatAdd(x, y) ==
    LET g == GCD(x[2], y[2])
    IN Ratio(x[1] * (y[2] \div g) + y[1] * (x[2] \div g), (x[2] \div g) * y[2])

RatNeg(x) == <<-x[1], x[2]>>

RatTimes(x, n, d) == Ratio(x[1] * n, x[2] * d)

\* line 926: alpha * data[i] + (1 - alpha) * current_ema, alpha = 2 / (window + 1)
EmaStep(current_ema, x, window) ==
    RatAdd(RatTimes(x, 2, window + 1), RatTimes(current_ema, window - 1, window + 1))

\* calculate_macd (lines 933-943) at element i (counted from 1), given the
\* element before: the two averages of the closes, their difference and
\* the signal average of the difference (line 939 recomputes the signal
\* average from the start of the slice for every element, to the same value)
MacdStep(before, data, i) ==
    LET x == <<data[i].close, 1>>
        ema_fast == IF i = 1 THEN x ELSE EmaStep(before.ema_fast, x, 12)
        ema_slow == IF i = 1 THEN x ELSE EmaStep(before.ema_slow, x, 26)
        macd_line == RatAdd(ema_fast, RatNeg(ema_slow))
        signal_line == IF i = 1 THEN macd_line
                       ELSE EmaStep(before.signal_line, macd_line, 9)
    IN [ema_fast |-> ema_fast, ema_slow |-> ema_slow, macd_line |-> macd_line,
        signal_line |-> signal_line]

\* calculate_obv (lines 945-960) at element i (counted from 1), given the
\* element before
ObvStep(prev_obv, data, i) ==
    IF i = 1 THEN data[1].volume
    ELSE IF data[i].close > data[i - 1].close THEN prev_obv + data[i].volume
    ELSE IF data[i].close < data[i - 1].close THEN prev_obv - data[i].volume
    ELSE prev_obv

\* The loops of lines 921-929 and 949-958 over elements i..to: each
\* element is computed from the one before it, a stretch of StretchLength
\* elements at a time
StretchLength == 14

RECURSIVE MacdStretch(_, _, _, _)
MacdStretch(data, i, to, before) ==
    IF i > to THEN before
    ELSE CHOOSE last \in { MacdStretch(data, i + 1, to, element) :
                             element \in { MacdStep(before, data, i) } } : TRUE

RECURSIVE MacdWalk(_, _, _, _)
MacdWalk(data, i, to, before) ==
    IF i > to THEN before
    ELSE CHOOSE last \in
            { MacdWalk(data, i + StretchLength, to, element) :
                 element \in { MacdStretch(data, i, Min(to, i + StretchLength - 1),
                                           before) } } : TRUE

RECURSIVE ObvStretch(_, _, _, _)
ObvStretch(data, i, to, prev_obv) ==
    IF i > to THEN prev_obv
    ELSE CHOOSE last \in { ObvStretch(data, i + 1, to, obv) :
                             obv \in { ObvStep(prev_obv, data, i) } } : TRUE

RECURSIVE ObvWalk(_, _, _, _)
ObvWalk(data, i, to, prev_obv) ==
    IF i > to THEN prev_obv
    ELSE CHOOSE last \in
            { ObvWalk(data, i + StretchLength, to, obv) :
                 obv \in { ObvStretch(data, i, Min(to, i + StretchLength - 1),
                                      prev_obv) } } : TRUE

NoMacd ==
    [ema_fast |-> <<0, 1>>, ema_slow |-> <<0, 1>>, macd_line |-> <<0, 1>>,
     signal_line |-> <<0, 1>>]

\* macd_hist[data.length - 1] (lines 938-941)
calculate_macd(data) ==
    LET last == MacdWalk(data, 1, Len(data), NoMacd)
    IN RatAdd(last.macd_line, RatNeg(last.signal_line))

\* obv[k], k counted from 0
calculate_obv(data, k) == ObvWalk(data, 1, k + 1, 0)

\* lines 1182-1186: change over obv_values.slice(predictIndex - 20, predictIndex)
obv_pct_change(subData, predictIndex) ==
    LET initial_obv == calculate_obv(subData, Max(0, predictIndex - 20))
        final_obv == calculate_obv(subData, predictIndex - 1)
    IN IF initial_obv = 0 THEN <<(final_obv - initial_obv) * 100000000, 1>>
       ELSE Ratio((final_obv - initial_obv) * 100, Abs(initial_obv))

SetMin(S) == CHOOSE x \in S : \A y \in S : x <= y
SetMax(S) == CHOOSE x \in S : \A y \in S : x >= y

\* calculate_stochastic (lines 962-976), element i (counted from 0)
calculate_stochastic(data, i) ==
    IF i < 14 - 1 THEN <<50, 1>>
    ELSE LET windowData == { data[j + 1] : j \in (i - 14 + 1)..i }
             lowestLow == SetMin({ d.low : d \in windowData })
             highestHigh == SetMax({ d.high : d \in windowData })
             range == highestHigh - lowestLow
         IN IF range > 0 THEN Ratio(100 * (data[i + 1].close - lowestLow), range)
            ELSE <<50, 1>>

\* calculate_volume_pressure (lines 999-1006)
calculate_volume_pressure(lastCandle) ==
    LET range == lastCandle.high - lastCandle.low
    IN IF range <= 0 THEN <<0, 1>>
       ELSE Ratio((2 * (lastCandle.close - lastCandle.low) - range) * 100, range)

\* A trial that takes the outcome candle for its prediction candle
predictCandle_Outcome(data, idx) == data[idx.outcomeIndex + 1]

\* line 1171
predictCandle(data, idx) == data[idx.predictIndex + 1]

\* The readings are whole numbers on the candles drawn below
Whole(q) == q[1] \div q[2]

\* lines 1171-1194: what trial i reads from the candles. generatePrediction
\* reads the sign of the histogram only (lines 1131-1132), so its numerator
\* stands for it.
TrialReadings(data, i) ==
    LET idx == TrialIndices(Len(data), i)
        subData == SubSeq(data, 1, idx.predictIndex + 1)
        actualChange == data[idx.outcomeIndex + 1].close - predictCandle(data, idx).close
    IN Trial(Whole(obv_pct_change(subData, idx.predictIndex)),
             Whole(calculate_stochastic(subData, idx.predictIndex)),
             calculate_macd(subData)[1],
             Whole(calculate_volume_pressure(predictCandle(data, idx))),
             IF actualChange > 0 THEN "UP"
             ELSE IF actualChange < 0 THEN "DOWN" ELSE "FLAT")

\* adjustedWeights as trial i finds them: the starting vector moved by the
\* trials 0..i-1
RECURSIVE InProgressWeights(_, _, _)
InProgressWeights(data, i, initialWeights) ==
    IF i = 0 THEN initialWeights
    ELSE TrialStep(InProgressWeights(data, i - 1, initialWeights),
                   TrialReadings(data, i - 1))

\* line 1191: the prediction of trial i, with the weights it was made with
TrialPrediction(data, i, initialWeights) ==
    LET tr == TrialReadings(data, i)
        adjustedWeights == InProgressWeights(data, i, initialWeights)
    IN [adjustedWeights |-> adjustedWeights,
        readings |-> tr,
        prediction |-> generatePrediction(tr.obv, tr.stoch, tr.macd, tr.vp,
                                          50, adjustedWeights)]

\* Candles: a quiet one, one closing on its high and one closing on its low
Candle(close, high, low, volume) ==
    [close |-> close, high |-> high, low |-> low, volume |-> volume]
QuietCandle == Candle(2, 3, 1, 100)
TailCandles == { QuietCandle, Candle(3, 3, 1, 2), Candle(1, 3, 1, 2) }

\* The trials followed on candles: the newest two
NewestTrials == {0, 1}

\* A full lookback of candles: quiet up to the prediction candle of the
\* oldest trial followed, then candles a and b, then four candles c
CandleSeries(a, b, c) ==
    [j \in 1..LOOKBACK_PERIOD |->
        IF j <= LOOKBACK_PERIOD - LOOKAHEAD_CANDLES - 2 THEN QuietCandle
        ELSE IF j = LOOKBACK_PERIOD - LOOKAHEAD_CANDLES - 1 THEN a
        ELSE IF j = LOOKBACK_PERIOD - LOOKAHEAD_CANDLES THEN b
        ELSE c]

\* The same series with every candle from index `from` on (counted from 0)
\* replaced by c
ReplacedFrom(data, from, c) ==
    [j \in 1..Len(data) |-> IF j - 1 >= from THEN c ELSE data[j]]

\* The starting vector of the trials on candles: the Stochastic weight
\* equal to the volume-pressure and MACD weights together
SeriesWeights == { Weights(25, 30, 20, 10) }

\* Pairs of series for trial i: the second differs from the first after
\* the prediction candle, or from the prediction candle on
SeriesPairs ==
    { [data |-> CandleSeries(a, b, c),
       other |-> ReplacedFrom(CandleSeries(a, b, c),
                              TrialIndices(LOOKBACK_PERIOD, i).predictIndex + d, e),
       i |-> i] :
         a \in TailCandles, b \in TailCandles, c \in TailCandles,
         e \in TailCandles, i \in NewestTrials, d \in {0, 1} }

\* Readings handed to generatePrediction: on both sides of every threshold
PredictionReadings ==
    [obv : {-2, 0, 2}, stoch : {10, 50, 90}, macd : {-1, 0, 1},
     vp : {-60, -20, 0, 20, 60}, obi : {30, 40, 50, 60, 70}]

\* Whole weights that panel outcomes carry in the calls of averageWeights
WeightGrid == { 5, 21, 22, 25, 30, 70 }

\* The weight vectors over the grid that sum to TARGET_TOTAL_WEIGHT
IntegerVectors ==
    { w \in { Weights(a, b, c, d) : a \in WeightGrid, b \in WeightGrid,
                                    c \in WeightGrid, d \in WeightGrid } :
         SumW(w) = Pts(TARGET_TOTAL_WEIGHT) }

\* allLearnedResults: one outcome per panel symbol that was learned, each
\* with an accuracy of '50.0'
Panels ==
    UNION { [1..k -> { [weights |-> w, accuracy |-> 500] : w \in IntegerVectors }] :
               k \in 1..MaxPanel }

FnCalls ==
    { [fn |-> "generatePrediction", readings |-> rd, weights |-> w] :
         rd \in PredictionReadings, w \in StartVectors }
    \cup { [fn |-> "learner loop", len |-> n] : n \in LoopLengths }
    \cup { [fn |-> "processSymbolForScan", symbol |-> "BTCUSDT", sample |-> sm,
            optimizedWeights |-> w, n |-> n] :
              sm \in ScanSamples, w \in StartVectors,
              n \in { k \in CandleLengths : Usable(k) } }
    \cup { [fn |-> "learner prediction", data |-> pr.data, other |-> pr.other,
            i |-> pr.i, initialWeights |-> w] :
              pr \in SeriesPairs, w \in SeriesWeights }
    \cup { [fn |-> "learner trials",
            data |-> [len |-> LOOKBACK_PERIOD, trials |-> t],
            initialWeights |-> w] :
              t \in [1..MaxTrades -> TrialSamples], w \in LoopVectors }
    \cup
    { [fn |-> "calculate_and_adjust_weights",
       data |-> [len |-> n, trials |-> t], initialWeights |-> w] :
         n \in LearnerLengths, t \in LearnerTrials, w \in StartVectors }
    \cup { [fn |-> "calculate_atr", data |-> d, window |-> w] :
              d \in SeqsUpTo(CandleSamples, MaxCandles), w \in 1..MaxWindow }
    \cup { [fn |-> "calculate_depth_weighted_imbalance", book |-> b] : b \in Books }
    \cup { [fn |-> "averageWeights", allLearnedResults |-> rs] : rs \in Panels }
    \cup { [fn |-> "processSymbolForScan gate", confidence |-> c,
            lastCandleBody |-> b, current_atr |-> a] :
              c \in GateConfidences, b \in GateBodies, a \in GateAtrs }

InitFn ==
    /\ call \in FnCalls
    /\ ret = [fn |-> "none"]
    /\ RWCIdle
    /\ WIdle
    /\ SrvIdle

Returned(value) ==
    /\ ret.fn = "none"
    /\ ret' = [fn |-> call.fn, value |-> value]
    /\ UNCHANGED <<call, varsRWC, varsW, varsSrv>>

ApplyLearner ==
    /\ call.fn = "calculate_and_adjust_weights"
    /\ Returned(calculate_and_adjust_weights(call.data, call.initialWeights))

ApplyAtr ==
    /\ call.fn = "calculate_atr"
    /\ Returned(calculate_atr(call.data, call.window))

ApplyImbalance ==
    /\ call.fn = "calculate_depth_weighted_imbalance"
    /\ Returned(calculate_depth_weighted_imbalance(call.book))

ApplyAverage ==
    /\ call.fn = "averageWeights"
    /\ Returned(averageWeights(call.allLearnedResults))

ApplyGate ==
    /\ call.fn = "processSymbolForScan gate"
    /\ Returned(PassesGate(call.confidence, call.lastCandleBody, call.current_atr))

ApplyPrediction ==
    /\ call.fn = "generatePrediction"
    /\ Returned(generatePrediction(call.readings.obv, call.readings.stoch,
                                   call.readings.macd, call.readings.vp,
                                   call.readings.obi, call.weights))

ApplyLoop ==
    /\ call.fn = "learner loop"
    /\ Returned(ExecutedTrials(call.len, LEARNING_TRADE_COUNT, 0))

ApplyTrials ==
    /\ call.fn = "learner trials"
    /\ Returned(LearnerWithTrace(call.data, call.initialWeights))

\* One trial's prediction on each of two candle series
ApplyTrialPrediction ==
    /\ call.fn = "learner prediction"
    /\ Returned([data |-> TrialPrediction(call.data, call.i, call.initialWeights),
                 other |-> TrialPrediction(call.other, call.i, call.initialWeights)])

\* processSymbolForScan past its two fetches (lines 1337-1373)
ApplyScan ==
    /\ call.fn = "processSymbolForScan"
    /\ Returned(ScanVerdict(call.symbol, call.sample, call.optimizedWeights, call.n))

NextFn ==
    \/ ApplyPrediction
    \/ ApplyScan
    \/ ApplyTrialPrediction
    \/ ApplyLoop
    \/ ApplyTrials
    \/ ApplyLearner
    \/ ApplyAtr
    \/ ApplyImbalance
    \/ ApplyAverage
    \/ ApplyGate

SpecFn == InitFn /\ [][NextFn]_vars

\* The length used by the server model is the length of what calculate_atr
\* returns
AtrLengthAgrees ==
    ret.fn = "calculate_atr"
       => Len(ret.value) = AtrLength(Len(call.data), call.window)

C18_GateOnConfidenceAndVolatility ==
    ret.fn = "processSymbolForScan gate" /\ ret.value
       => /\ call.confidence >= 4 * 50
          /\ call.current_atr # Undefined /\ call.current_atr > 0
          /\ 2 * call.lastCandleBody > call.current_atr

\* An evaluation let through with a confidence of exactly 50
C18_Witness ==
    /\ ret.fn = "processSymbolForScan gate" /\ ret.value
    /\ call.confidence = 4 * 50

\* C19 (original claim): for one candle or more, calculate_atr returns as
\* many ATR values as there are candles.
C19_AtrSameLength ==
    ret.fn = "calculate_atr" /\ Len(call.data) >= 1
       => Len(ret.value) = Len(call.data)

\* C20 (original claim): calculate_depth_weighted_imbalance returns 50 for
\* an empty book and for a book that is absent or lacks bids or asks.
C20_NeutralWithoutBook ==
    ret.fn = "calculate_depth_weighted_imbalance"
       /\ (\/ ~call.book.present \/ ~call.book.hasBids \/ ~call.book.hasAsks
           \/ (call.book.bids = << >> /\ call.book.asks = << >>))
       => ret.value = <<50, 1>>

\* ------------------------------------------------------------------------
\* Claims about failures inside a cycle
\* ------------------------------------------------------------------------
OwnedBy(r, seq) == {i \in 1..Len(seq) : seq[i] = r}

\* Request r's cycle made no learning fetch, created no sweep task, wrote
\* nothing, saved nothing and notified nothing
NothingBeyondTheList(r) ==
    /\ cyc[r].li = 0 /\ cyc[r].allLearningResults = << >>
    /\ cyc[r].task = << >> /\ cyc[r].sActive = {} /\ cyc[r].sResults = << >>
    /\ OwnedBy(r, writeLog) = {}
    /\ \A i \in 1..Len(writeQueue) : writeQueue[i].owner # r
    /\ \A i \in 1..Len(notified) : notified[i].cycle # r

\* C11: when the symbol-list call fails the cycle ends in that step with
\* the in-memory weights and accuracy as they were, and the ended cycle has
\* made no learning fetch, created no sweep task, saved nothing and sent no
\* notification, then or later.
C11_ListFailureAborts ==
    [][\A r \in Requests :
          /\ (cyc[r].pc # "aborted" /\ cyc'[r].pc = "aborted"
                 => /\ cyc[r].pc = "fetchSymbols"
                    /\ CURRENT_WEIGHTS' = CURRENT_WEIGHTS
                    /\ HISTORICAL_ACCURACY' = HISTORICAL_ACCURACY
                    /\ NothingBeyondTheList(r)')
          /\ (cyc[r].pc = "aborted"
                 => cyc'[r] = cyc[r] /\ NothingBeyondTheList(r)')]_vars

C11_Witness ==
    \E r \in Requests : cyc[r].pc = "aborted" /\ resp[r] = "200"

\* C12: when the save issued after learning settles, failed or not, the
\* cycle goes on: the in-memory weights and accuracy stay the learned ones,
\* the cycle keeps the learned vector, its sweep starts with that vector,
\* and the report it makes carries that vector.
C12_SaveFailureGoesOn ==
    [][\A r \in Requests :
          cyc[r].pc = "save" /\ cyc'[r].pc # "save"
             => /\ CURRENT_WEIGHTS' = CURRENT_WEIGHTS
                /\ HISTORICAL_ACCURACY' = HISTORICAL_ACCURACY
                /\ cyc'[r].optimizedWeights = Head(writeQueue).weights
                /\ cyc'[r].optimizedWeights = cyc[r].optimizedWeights
                /\ cyc'[r].pc \in {"sweep", "done"}
                /\ (cyc'[r].pc = "sweep" => cyc'[r].sActive # {})
                /\ (cyc'[r].pc = "done" =>
                       \A i \in 1..Len(notified') :
                          notified'[i].cycle = r
                             => notified'[i].weights = cyc[r].optimizedWeights)]_vars

\* A cycle that learned, whose save failed (the store is still empty), and
\* that went through its sweep to its report
C12_Witness ==
    \E r \in Requests :
       /\ cyc[r].pc = "done" /\ OwnedBy(r, writeLog) # {}
       /\ store = << >> /\ writeQueue = << >>
       /\ cyc[r].optimizedWeights # cyc[r].currentWeightsSnapshot
       /\ \E i \in 1..Len(notified) :
             notified[i].cycle = r /\ notified[i].weights = cyc[r].optimizedWeights

\* The moves a sweep task makes: each fetch is started once, and from each
\* fetch the task goes forward or returns
TaskMoves ==
    { <<"idle", "candles">>, <<"candles", "book">>, <<"candles", "short">>,
      <<"candles", "caught">>, <<"book", "caught">>, <<"book", "null">>,
      <<"book", "result">> }

\* C13: a sweep task only moves forward (its candle fetch and its
\* order-book fetch are each made at most once), and when it ends without a
\* result, a failed fetch included, it resolves with null: nothing is added
\* to the results, the task leaves the active set and the sweep goes on or
\* ends with its report.
C13_FetchFailureIsNull ==
    [][\A r \in Requests, t \in SweepTasks :
          (/\ t \in DOMAIN cyc[r].task /\ t \in DOMAIN cyc'[r].task
           /\ cyc'[r].task[t] # cyc[r].task[t])
             => /\ <<cyc[r].task[t], cyc'[r].task[t]>> \in TaskMoves
                /\ (cyc'[r].task[t] \in {"short", "caught", "null"}
                       => /\ cyc'[r].sResults = cyc[r].sResults
                          /\ t \notin cyc'[r].sActive
                          /\ cyc'[r].pc \in {"sweep", "done"})]_vars

\* A task one of whose fetches failed, in a cycle that ended normally
C13_Witness ==
    \E r \in Requests, t \in SweepTasks :
       /\ t \in DOMAIN cyc[r].task
       /\ cyc[r].task[t] = "caught"
       /\ cyc[r].sActive = {} /\ cyc[r].pc = "done"

\* C17 (original claim): a task goes on to its order-book fetch only with
\* a full lookback window of candles, and is skipped with fewer.
C17_ShortOfWindowSkipped ==
    \A r \in Requests : \A t \in DOMAIN cyc[r].task :
       /\ (cyc[r].task[t] = "book"
              => cyc[r].candles[t] >= LOOKBACK_PERIOD)
       /\ (cyc[r].task[t] = "short"
              => cyc[r].candles[t] < LOOKBACK_PERIOD)

\* C17 (amended): a task is skipped before its order-book fetch exactly
\* when it received fewer than LOOKBACK_PERIOD - 1 candles; with
\* LOOKBACK_PERIOD - 1 candles it goes on to the order-book fetch.
C17_ShortOfWindowLessOneSkipped ==
    \A r \in Requests : \A t \in DOMAIN cyc[r].task :
       /\ (cyc[r].task[t] = "book"
              => cyc[r].candles[t] >= LOOKBACK_PERIOD - 1)
       /\ (cyc[r].task[t] = "short"
              => cyc[r].candles[t] < LOOKBACK_PERIOD - 1)

\* One task skipped for its short sequence, and one at its order-book fetch
\* with one candle less than the window
C17_Witness ==
    /\ \E r \in Requests : \E t \in DOMAIN cyc[r].task :
          cyc[r].task[t] = "short"
    /\ \E r \in Requests : \E t \in DOMAIN cyc[r].task :
          cyc[r].task[t] = "book" /\ cyc[r].candles[t] = LOOKBACK_PERIOD - 1

\* C14: a cycle's learning results never hold the outcome of an instrument
\* whose history was insufficient (no 'N/A' accuracy enters the averages),
\* and when the learning loop ends with no result at all, that step leaves
\* the in-memory weights and accuracy as they were, issues no save, and the
\* sweep runs with the weights snapshot taken when the cycle started.
C14_NoOutcomeIsNoOp ==
    [][\A r \in Requests :
          cyc[r].pc \in {"fetchSymbols", "learn"}
             /\ cyc'[r].pc \in {"save", "sweep", "done"}
             => /\ \A i \in 1..Len(cyc'[r].allLearningResults) :
                      cyc'[r].allLearningResults[i].accuracy # NA
                /\ (cyc'[r].allLearningResults = << >>
                      => /\ CURRENT_WEIGHTS' = CURRENT_WEIGHTS
                         /\ HISTORICAL_ACCURACY' = HISTORICAL_ACCURACY
                         /\ writeLog' = writeLog /\ writeQueue' = writeQueue
                         /\ cyc'[r].pc = "sweep" /\ cyc'[r].sActive # {}
                         /\ cyc'[r].optimizedWeights =
                               cyc[r].currentWeightsSnapshot)]_vars

\* A cycle whose learning symbols were all tried and gave no result, with
\* its sweep under way on the snapshot
C14_Witness ==
    \E r \in Requests :
       /\ cyc[r].pc = "sweep" /\ cyc[r].sActive # {}
       /\ cyc[r].li = Len(cyc[r].learningSymbols) /\ cyc[r].li > 0
       /\ cyc[r].allLearningResults = << >>
       /\ cyc[r].optimizedWeights = cyc[r].currentWeightsSnapshot
       /\ OwnedBy(r, writeLog) = {}

\* ------------------------------------------------------------------------
\* Claims about the prediction engine
\* ------------------------------------------------------------------------

\* C21: generatePrediction answers UP exactly when the net score is 0 or
\* more and DOWN exactly when it is below 0.
C21_DirectionBySign ==
    ret.fn = "generatePrediction"
       => /\ ret.value.prediction \in {"UP", "DOWN"}
          /\ (ret.value.prediction = "UP" <=> ret.value.score >= 0)
          /\ (ret.value.prediction = "DOWN" <=> ret.value.score < 0)

\* A net score of exactly 0 made of two contributions that cancel
C21_Witness ==
    /\ ret.fn = "generatePrediction"
    /\ ret.value.score = 0 /\ ret.value.prediction = "UP"
    /\ ret.value.componentScores.STOCH # 0

FullyBullish(rd) ==
    rd.obv > 1 /\ rd.stoch < 25 /\ rd.macd > 0 /\ rd.vp > 50 /\ rd.obi > 65

\* C22: with every reading beyond its full bullish threshold the net score
\* is the sum of the four adjustable weights plus the static 15 (scores are
\* in quarter points, weights in half points); with the default weights
\* that is 100, direction UP, confidence 100.
C22_FullyBullishScore ==
    ret.fn = "generatePrediction" /\ FullyBullish(call.readings)
       => /\ ret.value.score = 2 * SumW(call.weights) + 4 * 15
          /\ (call.weights = DefaultWeights
                => /\ ret.value.score = 4 * 100
                   /\ ret.value.prediction = "UP"
                   /\ ret.value.confidence = 4 * 100)

C22_Witness ==
    /\ ret.fn = "generatePrediction" /\ FullyBullish(call.readings)
    /\ call.weights = DefaultWeights /\ ret.value.score = 4 * 100

\* ------------------------------------------------------------------------
\* Claims about the learner's loop
\* ------------------------------------------------------------------------
Trace == ret.value.trace

\* Math.sign(componentScores[key]) === Math.sign(score), lines 1199, 1206
VotedWith(e, key) == Sign(e.prediction.componentScores[key]) = Sign(e.prediction.score)

RECURSIVE CountHits(_, _)
CountHits(trace, k) ==
    IF k > Len(trace) THEN 0
    ELSE (IF trace[k].isHit THEN 1 ELSE 0) + CountHits(trace, k + 1)

\* The weights the loop ends on are those the learner renormalizes, and the
\* hits of the trace are those of its accuracy
TraceAgrees ==
    ret.fn = "learner trials" /\ Len(Trace) > 0
       => LET run == RunTrials(call.data.trials, 1, Len(Trace),
                               call.initialWeights, 0)
          IN /\ Trace[Len(Trace)].after = run.weights
             /\ CountHits(Trace, 1) = run.hits

\* C24 (original claim): a trial whose actual direction is FLAT is not a
\* hit and changes no weight.
C24_FlatTrialChangesNothing ==
    ret.fn = "learner trials"
       => \A k \in 1..Len(Trace) :
             Trace[k].actual = "FLAT"
                => ~Trace[k].isHit /\ Trace[k].after = Trace[k].before

\* C25 (original claim): in each trial the keys whose contribution has the
\* sign of the net score are raised by the learning rate on a hit and
\* lowered by it on a miss; every other key keeps its weight.
C25_VotersMoveByRate ==
    ret.fn = "learner trials"
       => \A k \in 1..Len(Trace) : \A key \in KeySet :
             Trace[k].after[key] =
                IF ~VotedWith(Trace[k], key) THEN Trace[k].before[key]
                ELSE IF Trace[k].prediction.prediction = Trace[k].actual
                     THEN Trace[k].before[key] + LEARNING_RATE
                     ELSE Trace[k].before[key] - LEARNING_RATE

\* C25 (amended): the same, the raised weight being held at the ceiling of
\* 100 and the lowered one at the floor of 5.
C25_VotersMoveByRateWithinLimits ==
    ret.fn = "learner trials"
       => \A k \in 1..Len(Trace) : \A key \in KeySet :
             Trace[k].after[key] =
                IF ~VotedWith(Trace[k], key) THEN Trace[k].before[key]
                ELSE IF Trace[k].prediction.prediction = Trace[k].actual
                     THEN Min(Pts(CEILING), Trace[k].before[key] + LEARNING_RATE)
                     ELSE Max(Pts(FLOOR), Trace[k].before[key] - LEARNING_RATE)

\* A miss in which one voting key is lowered by the rate and another is
\* held at the floor, and a trial in which a key that did not vote is kept
C25_Witness ==
    /\ ret.fn = "learner trials"
    /\ \E k \in 1..Len(Trace) :
          /\ ~Trace[k].isHit
          /\ \E key \in KeySet :
                /\ VotedWith(Trace[k], key)
                /\ Trace[k].after[key] = Trace[k].before[key] - LEARNING_RATE
          /\ \E key \in KeySet :
                /\ VotedWith(Trace[k], key)
                /\ Trace[k].before[key] = Pts(FLOOR)
                /\ Trace[k].after[key] = Pts(FLOOR)
    /\ \E k \in 1..Len(Trace) :
          /\ \E key \in KeySet : VotedWith(Trace[k], key)
          /\ \E key \in KeySet :
                /\ ~VotedWith(Trace[k], key)
                /\ Trace[k].after[key] = Trace[k].before[key]

\* C26: from a starting vector within [5, 100], the in-progress weights
\* are within [5, 100] after every trial.
C26_InProgressInRange ==
    ret.fn = "learner trials" /\ InRange(call.initialWeights)
       => \A k \in 1..Len(Trace) : InRange(Trace[k].after)

\* A hit voted by a key on the ceiling and a miss voted by a key on the
\* floor, in one run
C26_Witness ==
    /\ ret.fn = "learner trials" /\ InRange(call.initialWeights)
    /\ \E k \in 1..Len(Trace) : \E key \in KeySet :
          /\ Trace[k].isHit /\ VotedWith(Trace[k], key)
          /\ Trace[k].before[key] = Pts(CEILING)
    /\ \E k \in 1..Len(Trace) : \E key \in KeySet :
          /\ ~Trace[k].isHit /\ VotedWith(Trace[k], key)
          /\ Trace[k].before[key] = Pts(FLOOR)

\* C27: the k-th executed trial is trial i = k - 1, predicts at
\* length - 4 - 1 - i and reads its outcome at length - 1 - i, 4 candles
\* later and inside the series; its prediction index is at least 26; and
\* the number of executed trials is the smaller of 50 and the number of i
\* whose prediction index is at least 26.
C27_TrialIndices ==
    ret.fn = "learner loop"
       => /\ \A k \in 1..Len(ret.value) :
                /\ ret.value[k].i = k - 1
                /\ ret.value[k].predictIndex = call.len - 4 - 1 - (k - 1)
                /\ ret.value[k].outcomeIndex = call.len - 1 - (k - 1)
                /\ ret.value[k].outcomeIndex = ret.value[k].predictIndex + 4
                /\ ret.value[k].outcomeIndex < call.len
                /\ ret.value[k].predictIndex >= 26
          /\ Len(ret.value) =
                Min(50, Cardinality({i \in 0..call.len : call.len - 4 - 1 - i >= 26}))

\* The loop on a full lookback: 50 trials, the last predicting at 146
C27_Witness ==
    /\ ret.fn = "learner loop" /\ call.len = LOOKBACK_PERIOD
    /\ Len(ret.value) = LEARNING_TRADE_COUNT
    /\ ret.value[1].outcomeIndex = LOOKBACK_PERIOD - 1

\* C29: the accuracy (in tenths of a percent) is 100 * hits / trials
\* executed to the nearest tenth, exactly so when the trials divide 1000;
\* it lies in 0..100, the hits do not exceed the trials, and the accuracy
\* of zero trials is 0.
C29_AccuracyIsHitRate ==
    /\ Accuracy(0, 0) = 0
    /\ ret.fn = "learner trials"
          => LET n == Len(Trace)
                 hits == CountHits(Trace, 1)
                 accuracy == ret.value.result.accuracy
             IN /\ hits <= n
                /\ accuracy \in 0..1000
                /\ 2 * Abs(accuracy * n - 1000 * hits) <= n
                /\ (1000 % n = 0 => accuracy * n = 1000 * hits)

\* A run with hits and misses
C29_Witness ==
    /\ ret.fn = "learner trials"
    /\ 0 < CountHits(Trace, 1) /\ CountHits(Trace, 1) < Len(Trace)
    /\ ret.value.result.accuracy * Len(Trace) = 1000 * CountHits(Trace, 1)

\* The readings of the candle trials are whole numbers
ReadingsWhole ==
    call.fn = "learner prediction"
       => \A data \in { call.data, call.other } : \A i \in 0..call.i :
             LET idx == TrialIndices(Len(data), i)
                 subData == SubSeq(data, 1, idx.predictIndex + 1)
             IN /\ obv_pct_change(subData, idx.predictIndex)[2] = 1
                /\ calculate_stochastic(subData, idx.predictIndex)[2] = 1
                /\ calculate_volume_pressure(predictCandle(data, idx))[2] = 1

\* The two series hold the same candles at indices 0..predictIndex
AgreeToPredictIndex ==
    LET predictIndex == TrialIndices(Len(call.data), call.i).predictIndex
    IN /\ Len(call.data) = Len(call.other)
       /\ \A j \in 0..predictIndex : call.data[j + 1] = call.other[j + 1]

SweepLaunched(r) ==
    \/ cyc[r].sActive # {}
    \/ \E t \in 1..Len(cyc[r].task) : cyc[r].task[t] # "idle"

SaveInFlight(r) == \E i \in 1..Len(writeQueue) : writeQueue[i].owner = r

\* C30: within a cycle the panel is learned one instrument at a time in
\* list order (one candle fetch awaited, its result appended before the
\* next fetch is issued), and no sweep task is launched before the last
\* panel instrument is finished and the save of the cycle has settled.
C30_PanelThenSaveThenSweep ==
    /\ [](\A r \in Requests :
            /\ cyc[r].pc = "learn"
                  => /\ cyc[r].li \in 1..Len(cyc[r].learningSymbols)
                     /\ Len(cyc[r].allLearningResults) < cyc[r].li
                     /\ ~SweepLaunched(r) /\ ~SaveInFlight(r)
            /\ cyc[r].pc = "save" => ~SweepLaunched(r)
            /\ SweepLaunched(r)
                  => /\ cyc[r].li = Len(cyc[r].learningSymbols)
                     /\ ~SaveInFlight(r))
    /\ [][\A r \in Requests :
            cyc[r].pc = "learn" /\ cyc'[r] # cyc[r]
               => \/ cyc'[r].pc = "learn" /\ cyc'[r].li = cyc[r].li + 1
                  \/ /\ cyc[r].li = Len(cyc[r].learningSymbols)
                     /\ cyc'[r].pc \in {"save", "sweep", "done"}]_vars

\* scanAndReport of request r returned: from the catch of line 1400, or
\* past its last line with every task of the sweep launched and settled
CycleFinished(r) ==
    \/ cyc[r].pc = "aborted"
    \/ /\ cyc[r].pc = "done"
       /\ cyc[r].sNext > Len(cyc[r].symbolsToScan)
       /\ cyc[r].sActive = {}
       /\ \A t \in 1..Len(cyc[r].task) :
             cyc[r].task[t] \in {"short", "caught", "null", "result"}

C30_Witness ==
    \E r \in Requests :
       /\ cyc[r].pc = "sweep" /\ cyc[r].sActive # {}
       /\ Len(cyc[r].learningSymbols) = 2 /\ cyc[r].li = 2
       /\ Len(cyc[r].allLearningResults) = 2
       /\ \E i \in 1..Len(writeLog) : writeLog[i] = r
       /\ db /\ ~SaveInFlight(r)

\* ------------------------------------------------------------------------
\* Claims about silent indicators, the sweep's results and the report
\* ------------------------------------------------------------------------
\* C31 (original claim): in every trial, a key whose contribution to the
\* prediction is zero keeps its weight, also when the net score is 0.
C31_SilentKeyKeepsWeight ==
    ret.fn = "learner trials"
       => \A k \in 1..Len(Trace) : \A key \in KeySet :
             Trace[k].prediction.componentScores[key] = 0
                => Trace[k].after[key] = Trace[k].before[key]

\* C32 (original claim): with 200 candles, a confidence of at least 50 and
\* a last closed candle body above half of a positive ATR,
\* processSymbolForScan returns a result.
C32_PassingInstrumentIsReported ==
    ret.fn = "processSymbolForScan"
       => LET prediction == generatePrediction(call.sample.obv, call.sample.stoch,
                                call.sample.macd, call.sample.vp, call.sample.obi,
                                call.optimizedWeights)
          IN /\ call.n = LOOKBACK_PERIOD
             /\ prediction.confidence >= 4 * 50
             /\ call.sample.atr > 0 /\ 2 * call.sample.body > call.sample.atr
             => Len(ret.value) > 0

\* What the learning pass of cycle c produced: the aggregate of its panel
\* (lines 1450-1455), or nothing when the panel gave no result
Learned(c) == Len(c.allLearningResults) > 0

\* C33 (original claim): every report carries the accuracy and the weights
\* that the learning pass of its own cycle produced; a cycle that learned
\* nothing reports the weights it started with.
C33_ReportIsOfItsOwnCycle ==
    \A i \in 1..Len(notified) :
       LET c == cyc[notified[i].cycle]
       IN IF Learned(c)
             THEN /\ notified[i].accuracy =
                        averageWeights(c.allLearningResults).averageAccuracy
                  /\ notified[i].weights =
                        averageWeights(c.allLearningResults).averagedWeights
             ELSE /\ notified[i].accuracy = c.accuracyBefore
                  /\ notified[i].weights = c.currentWeightsSnapshot


\* C35 (original claim): a cycle that starts while the store holds a
\* snapshot starts from the snapshot's weights, or from weights a cycle of
\* this process has learned since.
C35_CycleStartsFromSnapshot ==
    [][\A r \in Requests :
          cyc[r].pc = "none" /\ cyc'[r].pc = "fetchSymbols" /\ Len(store) > 0
             => \/ cyc'[r].currentWeightsSnapshot = store[1].weights
                \/ writeLog # << >>]_vars


\* Nothing is in flight: the startup is over, every cycle that was started
\* has returned and no setDoc is pending
Quiescent ==
    /\ boot = "listening"
    /\ writeQueue = << >>
    /\ \A r \in Requests : ~InProgress(cyc[r])

\* C34 (original claim): once every started cycle has finished and every
\* save has succeeded, the snapshot the store holds is the weight vector
\* and the accuracy held in memory.
C34_StoreEqualsMemory ==
    /\ Quiescent
    /\ \E r \in Requests : cyc[r].pc # "none"
    /\ \A r \in Requests : cyc[r].saved # "failed"
    /\ Len(store) > 0
    => store[1] = [weights |-> CURRENT_WEIGHTS, accuracy |-> HISTORICAL_ACCURACY]


\* C36 (original claim): for every order book with non-negative sizes,
\* whatever the number of levels on either side,
\* calculate_depth_weighted_imbalance returns a value from 0 to 100.
C36_ImbalanceInRange ==
    ret.fn = "calculate_depth_weighted_imbalance"
       => /\ ret.value[2] > 0
          /\ 0 <= ret.value[1]
          /\ ret.value[1] <= 100 * ret.value[2]


\* C37: when every outcome of the panel carries the same vector V of whole
\* weights from 5 to 100 that sum to 85, averageWeights returns V.
C37_AgreementIsFixedPoint ==
    ret.fn = "averageWeights"
       => LET rs == call.allLearnedResults
              V == rs[1].weights
          IN /\ \A i \in 1..Len(rs) : rs[i].weights = V
             /\ \A key \in KeySet : V[key] >= Pts(5) /\ V[key] <= Pts(100)
             /\ SumW(V) = Pts(85)
             => ret.value.averagedWeights = V

\* A panel of two that agrees on a vector with weights at the minimum came
\* back as that vector
C37_Witness ==
    /\ ret.fn = "averageWeights"
    /\ Len(call.allLearnedResults) = 2
    /\ call.allLearnedResults[1].weights = Weights(5, 5, 5, 70)
    /\ call.allLearnedResults[2].weights = Weights(5, 5, 5, 70)
    /\ ret.value.averagedWeights = Weights(5, 5, 5, 70)


====
